---- MODULE Spec2Model ----
(***************************************************************************)
(* Model of two integrations of the content repository:                    *)
(*   Integrations/FeedHTTP/FeedHTTP.py    plain-text feed over HTTP        *)
(*   Integrations/Securonix/Securonix.py  SIEM client, scheduled fetch     *)
(*                                                                         *)
(* Independent state machines share the module:                            *)
(*   SpecBatch     the generator batch() of FeedHTTP.py                    *)
(*   SpecFeed      fetch_indicators_command() of FeedHTTP.py               *)
(*   SpecFeedMain  one invocation of main() of FeedHTTP.py                 *)
(*   SpecSubmit    main() of FeedHTTP.py from line 244 on: the submission  *)
(*                 of the records of a large feed                          *)
(*   SpecFetch     fetch_incidents() of Securonix.py, any last_run         *)
(*   SpecSched     successive scheduled fetch-incidents invocations        *)
(*   SpecApi       one invocation of main() of Securonix.py: the client's  *)
(*                 token and the vendor requests of a command              *)
(* Each specification leaves the variables of the others at rest.          *)
(***************************************************************************)
EXTENDS Integers, Sequences, FiniteSets, TLC

(***************************************************************************)
(* Bounds of the model.                                                    *)
(***************************************************************************)
MaxRecords == 4

MaxBatchSize == 3

MaxIncidents == 3

MaxRuns == 2

MaxLineLen == 2

MaxLines == 2

VARIABLES
    \* batch(iterable, batch_size)
    iterable,            \* the argument: a sequence of records
    batch_size,          \* the argument batch_size
    b_pos,               \* position of the for loop in iterable
    current_batch,       \* the local current_batch
    yielded,             \* the batches yielded so far, in order
    b_pc,                \* "off" | "loop" | "done"
    \* fetch_incidents / main of Securonix.py
    lastRun,             \* the cursor the host stores (getLastRun/setLastRun)
    s_pc,                \* position in main / fetch_incidents
    last_run,            \* the argument last_run
    new_last_run,        \* the local new_last_run
    securonix_incidents, \* the local securonix_incidents (the vendor's data)
    demisto_incidents,   \* the local demisto_incidents
    s_raised,            \* the exception fetch_incidents raised, "" if none
    hostIncidents,       \* the lists handed to demisto.incidents, in order
    hostErrors,          \* the messages handed to return_error, in order
    runs,                \* invocations started so far
    emittedBefore,       \* incident IDs selected by earlier invocations
    \* fetch_indicators_command of FeedHTTP.py
    client,              \* the Client: encoding, ignore_regex, indicator, fields
    itype,               \* the argument itype
    f_pc,                \* "off" | "loop" | "fields" | "emit" | "done" | "raised"
    nlines,              \* lines iter_lines has yielded so far
    raw,                 \* the line iter_lines yielded last
    line,                \* the local line (after strip)
    indicator,           \* the local indicator
    attributes,          \* the local attributes
    indicators,          \* the local indicators
    f_raised,            \* the exception raised, "" if none
    outcome,             \* what became of the last line
    before,              \* len(indicators) when the last line was yielded
    \* main of FeedHTTP.py
    demisto_params,      \* demisto.params()
    command,             \* demisto.command()
    m_pc,                \* position in main
    gets,                \* HTTP GETs issued (line 131)
    status,              \* "" before the GET, then "ok" or "bad"
    created,             \* the calls of demisto.createIndicators, in order
    outputs,             \* the calls of return_outputs, in order
    errors,              \* the calls of return_error, in order
    m_raised,            \* the exception raised inside the try, "" if none
    escaped,             \* the exception that left main, "" if none
    \* main of Securonix.py
    a_command,           \* demisto.command()
    a_pc,                \* position in main
    token,               \* client._token
    requests,            \* the HTTP requests issued, with their responses
    pending,             \* the vendor requests the command has yet to issue
    a_outputs,           \* what the command handed to the host
    a_errors,            \* the calls of return_error, in order
    a_raised,            \* the exception raised inside the try
    \* main of Securonix.py, lines 1097-1104
    tenant,              \* params.get("tenant")
    server_url,          \* the local server_url
    u_pc                 \* "off" | "params" | "built"

batchVars == <<iterable, batch_size, b_pos, current_batch, yielded, b_pc>>

siemVars == <<lastRun, s_pc, last_run, new_last_run, securonix_incidents,
              demisto_incidents, s_raised, hostIncidents, hostErrors, runs,
              emittedBefore>>

feedVars == <<client, itype, f_pc, nlines, raw, line, indicator, attributes,
              indicators, f_raised, outcome, before>>

mainVars == <<demisto_params, command, m_pc, gets, status, created, outputs,
              errors, m_raised, escaped>>

apiVars == <<a_command, a_pc, token, requests, pending, a_outputs, a_errors,
             a_raised>>

urlVars == <<tenant, server_url, u_pc>>

vars == <<batchVars, siemVars, feedVars, mainVars, apiVars, urlVars>>

(***************************************************************************)
(* Generic helpers.                                                        *)
(***************************************************************************)
SeqsUpTo(S, n) == UNION {[1..k -> S] : k \in 0..n}

RECURSIVE Flatten(_)
Flatten(ss) == IF ss = <<>> THEN <<>> ELSE Head(ss) \o Flatten(Tail(ss))

Last(s) == s[Len(s)]

\* dict.get(key, default) on a dict modelled as a function
Get(d, k, default) == IF k \in DOMAIN d THEN d[k] ELSE default

EmptyDict == <<>>

(***************************************************************************)
(* FeedHTTP.py: batch(iterable, batch_size)                                *)
(***************************************************************************)
RecordIds == {"r1", "r2", "r3"}

BatchOff ==
    /\ iterable = <<>>
    /\ batch_size = 1
    /\ b_pos = 1
    /\ current_batch = <<>>
    /\ yielded = <<>>
    /\ b_pc = "off"

\* line 165, off by one
BatchFullLate(cb, size) == Len(cb) = size + 1

\* line 165: if len(current_batch) == batch_size
BatchFull(cb, size) == Len(cb) = size

\* lines 168-169 without the final yield
TailBatchDropped(cb) == <<>>

\* lines 168-169: if current_batch: yield current_batch
TailBatch(cb) == IF cb # <<>> THEN <<cb>> ELSE <<>>

\* lines 163-167: one iteration of the for loop
BatchItem ==
    /\ b_pc = "loop"
    /\ b_pos <= Len(iterable)
    /\ LET cb == Append(current_batch, iterable[b_pos])
       IN  IF BatchFull(cb, batch_size)
           THEN /\ yielded' = Append(yielded, cb)
                /\ current_batch' = <<>>
           ELSE /\ yielded' = yielded
                /\ current_batch' = cb
    /\ b_pos' = b_pos + 1
    /\ UNCHANGED <<iterable, batch_size, b_pc>>

\* lines 168-169: the iterable is exhausted
BatchEnd ==
    /\ b_pc = "loop"
    /\ b_pos > Len(iterable)
    /\ yielded' = yielded \o TailBatch(current_batch)
    /\ b_pc' = "done"
    /\ UNCHANGED <<iterable, batch_size, b_pos, current_batch>>

\* a call of batch(iterable, batch_size) with batch_size >= 1
BatchCalled ==
    /\ iterable \in SeqsUpTo(RecordIds, MaxRecords)
    /\ batch_size \in 1..MaxBatchSize
    /\ b_pos = 1
    /\ current_batch = <<>>
    /\ yielded = <<>>
    /\ b_pc = "loop"

(***************************************************************************)
(* Securonix.py: fetch_incidents and the fetch-incidents branch of main.   *)
(*                                                                         *)
(* A string of digits is a sequence of digits: "100" is <<1, 0, 0>>.       *)
(* A time string is modelled by the instant in milliseconds it denotes.    *)
(* A dict is a function on its keys; the vendor's data carries the JSON    *)
(* type it was decoded from.                                               *)
(***************************************************************************)
Id99 == <<9, 9>>

Id100 == <<1, 0, 0>>

Id101 == <<1, 0, 1>>

Id102 == <<1, 0, 2>>

\* the incidents the vendor may list
VendorIncidents ==
    { [incidentId |-> Id99, lastUpdateDate |-> 1500, priority |-> "Low"],
      [incidentId |-> Id100, lastUpdateDate |-> 2000, priority |-> "HIGH"],
      [incidentId |-> Id101, lastUpdateDate |-> 2750, priority |-> "medium"],
      [incidentId |-> Id102, lastUpdateDate |-> 3999, priority |-> "None"] }

\* the values result.data of the vendor's answer may take
VendorData ==
    {[type |-> "dict", d |-> EmptyDict]}
    \cup {[type |-> "dict", d |-> [totalIncidents |-> 0]]}
    \cup {[type |-> "dict", d |-> [totalIncidents |-> Len(items), incidentItems |-> items]] :
             items \in SeqsUpTo(VendorIncidents, MaxIncidents)}
    \cup {[type |-> "list", l |-> items] : items \in SeqsUpTo(VendorIncidents, 1)}

\* str.lower() on the priorities the vendor uses
Lower(p) ==
    CASE p = "Low" -> "low"
      [] p = "HIGH" -> "high"
      [] p = "Medium" -> "medium"
      [] OTHER -> p

\* lines 58-78
incident_priority_to_dbot_score(priority_str) ==
    LET priority == Lower(priority_str)
    IN  IF priority = "low" THEN 1
        ELSE IF priority = "medium" THEN 2
        ELSE IF priority = "high" THEN 3
        ELSE 0

\* line 1079: timestamp_to_datestring renders the milliseconds as a time
\* string with the fraction ".000Z": whole seconds
timestamp_to_datestring(ms) == (ms \div 1000) * 1000

\* line 1082 comparing the numbers the strings denote
RECURSIVE StrNumber(_)
StrNumber(s) == IF s = <<>> THEN 0 ELSE StrNumber(SubSeq(s, 1, Len(s) - 1)) * 10 + Last(s)

NumGreater(a, b) == StrNumber(a) > StrNumber(b)

\* line 1082: incident.get('incidentId') > last_incident_id, on two str:
\* Python compares strings character by character
RECURSIVE StrGreater(_, _)
StrGreater(a, b) ==
    IF a = <<>> THEN FALSE
    ELSE IF b = <<>> THEN TRUE
    ELSE IF Head(a) # Head(b) THEN Head(a) > Head(b)
    ELSE StrGreater(Tail(a), Tail(b))

\* lines 1077-1082: the incident entry built of a vendor incident
DemistoIncident(incident) ==
    [ name |-> incident.incidentId,
      occurred |-> timestamp_to_datestring(incident.lastUpdateDate),
      severity |-> incident_priority_to_dbot_score(incident.priority),
      rawJSON |-> incident ]

\* lines 1077-1082: the list comprehension
RECURSIVE BuildIncidents(_, _)
BuildIncidents(incidents_items, last_incident_id) ==
    IF incidents_items = <<>> THEN <<>>
    ELSE LET incident == Head(incidents_items)
             rest == BuildIncidents(Tail(incidents_items), last_incident_id)
         IN  IF StrGreater(incident.incidentId, last_incident_id)
             THEN <<DemistoIncident(incident)>> \o rest
             ELSE rest

\* line 1062: parse_date_range(fetch_time)[0], the start of the first fetch
FirstRunCursor == [time |-> 0]

\* line 1086: securonix_incidents[-1]. The dict was decoded from a JSON
\* object, whose keys are strings: the key -1 is never in it.
SubscriptMinusOne(data) == [raised |-> "KeyError"]

SiemOff ==
    /\ lastRun = EmptyDict
    /\ s_pc = "off"
    /\ last_run = EmptyDict
    /\ new_last_run = EmptyDict
    /\ securonix_incidents = [type |-> "dict", d |-> EmptyDict]
    /\ demisto_incidents = <<>>
    /\ s_raised = ""
    /\ hostIncidents = <<>>
    /\ hostErrors = <<>>
    /\ runs = 0
    /\ emittedBefore = {}

\* main lines 1141-1146 and fetch_incidents lines 1060-1068
SiemStart ==
    /\ s_pc = "idle"
    /\ runs < MaxRuns
    /\ runs' = runs + 1
    /\ last_run' = lastRun
    /\ new_last_run' = IF DOMAIN lastRun = {} THEN FirstRunCursor ELSE lastRun
    /\ demisto_incidents' = <<>>
    /\ securonix_incidents' = [type |-> "dict", d |-> EmptyDict]
    /\ s_raised' = ""
    /\ s_pc' = "list"
    /\ UNCHANGED <<lastRun, hostIncidents, hostErrors, emittedBefore>>

\* line 1071: list_incidents_request returns result.data
SiemList ==
    /\ s_pc = "list"
    /\ \E data \in VendorData : securonix_incidents' = data
    /\ s_pc' = "build"
    /\ UNCHANGED <<lastRun, last_run, new_last_run, demisto_incidents, s_raised,
                   hostIncidents, hostErrors, runs, emittedBefore>>

\* line 1071, lines 108-109: the HTTP status is not ok
SiemListFails ==
    /\ s_pc = "list"
    /\ s_raised' = "ValueError"
    /\ s_pc' = "raised"
    /\ UNCHANGED <<lastRun, last_run, new_last_run, securonix_incidents,
                   demisto_incidents, hostIncidents, hostErrors, runs, emittedBefore>>

\* lines 1073-1082
SiemBuild ==
    /\ s_pc = "build"
    /\ IF securonix_incidents.type # "dict"
       THEN \* line 1073: a list has no attribute get
            /\ s_raised' = "AttributeError"
            /\ s_pc' = "raised"
            /\ UNCHANGED demisto_incidents
       ELSE IF DOMAIN securonix_incidents.d = {}
       THEN \* line 1074: an empty dict is false
            /\ s_pc' = "return"
            /\ UNCHANGED <<demisto_incidents, s_raised>>
       ELSE IF "incidentItems" \notin DOMAIN securonix_incidents.d
       THEN \* line 1082: incidents_items is None, which is not iterable
            /\ s_raised' = "TypeError"
            /\ s_pc' = "raised"
            /\ UNCHANGED demisto_incidents
       ELSE /\ demisto_incidents' =
                  BuildIncidents(securonix_incidents.d.incidentItems,
                                 Get(last_run, "incidentId", <<0>>))
            /\ s_pc' = "cursor"
            /\ UNCHANGED s_raised
    /\ UNCHANGED <<lastRun, last_run, new_last_run, securonix_incidents,
                   hostIncidents, hostErrors, runs, emittedBefore>>

\* lines 1084-1087 moving the cursor on when nothing new was fetched
SiemCursorMovesOn ==
    /\ s_pc = "cursor"
    /\ IF demisto_incidents = <<>>
       THEN /\ new_last_run' = [time |-> 4000]
            /\ s_pc' = "return"
            /\ UNCHANGED s_raised
       ELSE /\ s_raised' = SubscriptMinusOne(securonix_incidents).raised
            /\ s_pc' = "raised"
            /\ UNCHANGED new_last_run
    /\ UNCHANGED <<lastRun, last_run, securonix_incidents, demisto_incidents,
                   hostIncidents, hostErrors, runs, emittedBefore>>

\* lines 1084-1087
SiemCursor ==
    /\ s_pc = "cursor"
    /\ IF demisto_incidents = <<>>
       THEN /\ s_pc' = "return"
            /\ UNCHANGED <<new_last_run, s_raised>>
       ELSE LET last_incident_timestamp == Last(demisto_incidents).occurred
                last == SubscriptMinusOne(securonix_incidents)
            IN  IF "raised" \in DOMAIN last
                THEN /\ s_raised' = last.raised
                     /\ s_pc' = "raised"
                     /\ UNCHANGED new_last_run
                ELSE /\ new_last_run' = [time |-> last_incident_timestamp,
                                         id |-> last.incidentId]
                     /\ s_pc' = "return"
                     /\ UNCHANGED s_raised
    /\ UNCHANGED <<lastRun, last_run, securonix_incidents, demisto_incidents,
                   hostIncidents, hostErrors, runs, emittedBefore>>

\* line 1090 and main line 1147: demisto.incidents(incidents)
SiemIncidents ==
    /\ s_pc = "return"
    /\ hostIncidents' = Append(hostIncidents, demisto_incidents)
    /\ s_pc' = "setLastRun"
    /\ UNCHANGED <<lastRun, last_run, new_last_run, securonix_incidents,
                   demisto_incidents, s_raised, hostErrors, runs, emittedBefore>>

EmittedIds == {demisto_incidents[i].name : i \in 1..Len(demisto_incidents)}

\* main line 1148: demisto.setLastRun(last_run)
SiemSetLastRun ==
    /\ s_pc = "setLastRun"
    /\ lastRun' = new_last_run
    /\ emittedBefore' = emittedBefore \cup EmittedIds
    /\ s_pc' = "idle"
    /\ UNCHANGED <<last_run, new_last_run, securonix_incidents, demisto_incidents,
                   s_raised, hostIncidents, hostErrors, runs>>

\* lines 1154-1155 storing the cursor fetch_incidents had come to
SiemErrorStoresCursor ==
    /\ s_pc = "raised"
    /\ hostErrors' = Append(hostErrors, s_raised)
    /\ lastRun' = new_last_run
    /\ emittedBefore' = emittedBefore \cup EmittedIds
    /\ s_pc' = "idle"
    /\ UNCHANGED <<last_run, new_last_run, securonix_incidents,
                   demisto_incidents, s_raised, hostIncidents, runs>>

\* main lines 1154-1155: return_error(str(err))
SiemError ==
    /\ s_pc = "raised"
    /\ hostErrors' = Append(hostErrors, s_raised)
    /\ emittedBefore' = emittedBefore \cup EmittedIds
    /\ s_pc' = "idle"
    /\ UNCHANGED <<lastRun, last_run, new_last_run, securonix_incidents,
                   demisto_incidents, s_raised, hostIncidents, runs>>

\* the values of last_run fetch_incidents is called with
LastRunArgs ==
    { EmptyDict,
      [time |-> 1000],
      [time |-> 1000, incidentId |-> Id100],
      [time |-> 1000, id |-> Id100] }

SiemIdle ==
    /\ s_pc = "idle"
    /\ last_run = EmptyDict
    /\ new_last_run = EmptyDict
    /\ securonix_incidents = [type |-> "dict", d |-> EmptyDict]
    /\ demisto_incidents = <<>>
    /\ s_raised = ""
    /\ hostIncidents = <<>>
    /\ hostErrors = <<>>
    /\ runs = 0
    /\ emittedBefore = {}

(***************************************************************************)
(* FeedHTTP.py: text, regular expressions and templates.                   *)
(*                                                                         *)
(* A string is a sequence of characters.  A line is a text value           *)
(* [t, s]: t is "str" or "bytes", the Python type, s the characters.       *)
(* A compiled pattern is [anchored, atoms]: a leading ^ or none, then      *)
(* atoms [cls, plus, group]: one character of the class cls, or one or     *)
(* more (greedy) when plus holds, inside capture group number group        *)
(* (0: in no group).  A template is a sequence of segments [lit] (a        *)
(* literal character) and [ref] (a group reference, \g<0> the match).      *)
(***************************************************************************)
Digits == {"0", "1", "2", "3", "4", "5", "6", "7", "8", "9"}

\* the characters str.strip() and str.split() take for whitespace
IsSpace(c) == c \in {" ", "\t"}

Str(chars) == [t |-> "str", s |-> chars]

Bytes(chars) == [t |-> "bytes", s |-> chars]

SetMin(S) == CHOOSE x \in S : \A y \in S : x <= y

SetMax(S) == CHOOSE x \in S : \A y \in S : x >= y

\* str.strip() on the characters, from the left
RECURSIVE LStrip(_)
LStrip(s) == IF s # <<>> /\ IsSpace(Head(s)) THEN LStrip(Tail(s)) ELSE s

\* str.strip() on the characters, from the right
RECURSIVE RStrip(_)
RStrip(s) ==
    IF s # <<>> /\ IsSpace(Last(s)) THEN RStrip(SubSeq(s, 1, Len(s) - 1)) ELSE s

\* line 181: line.strip()
Strip(s) == RStrip(LStrip(s))

\* line 186: line.split(), the words between runs of whitespace
RECURSIVE SplitFrom(_, _)
SplitFrom(s, word) ==
    IF s = <<>> THEN (IF word = <<>> THEN <<>> ELSE <<word>>)
    ELSE IF IsSpace(Head(s))
         THEN (IF word = <<>> THEN <<>> ELSE <<word>>) \o SplitFrom(Tail(s), <<>>)
         ELSE SplitFrom(Tail(s), Append(word, Head(s)))

Split(s) == SplitFrom(s, <<>>)

\* the number of capture groups of a compiled pattern (regex.groups)
Groups(regex) ==
    SetMax({0} \cup {regex.atoms[k].group : k \in 1..Len(regex.atoms)})

\* the characters of s from position i on that lie in cls, counted
RECURSIVE RunLen(_, _, _)
RunLen(cls, s, i) ==
    IF i > Len(s) \/ s[i] \notin cls THEN 0 ELSE 1 + RunLen(cls, s, i + 1)

\* the atoms k.. matched against s from position i, each greedy atom taking
\* the most characters that let the rest match; ends[j] is the position
\* after the text of atom k + j - 1
RECURSIVE MatchFrom(_, _, _, _)
MatchFrom(atoms, k, s, i) ==
    IF k > Len(atoms) THEN [ok |-> TRUE, ends |-> <<>>]
    ELSE LET a == atoms[k]
             run == RunLen(a.cls, s, i)
             most == IF a.plus THEN run ELSE IF run >= 1 THEN 1 ELSE 0
             good == {n \in 1..most : MatchFrom(atoms, k + 1, s, i + n).ok}
         IN  IF good = {} THEN [ok |-> FALSE, ends |-> <<>>]
             ELSE LET n == SetMax(good)
                  IN  [ok |-> TRUE,
                       ends |-> <<i + n>> \o MatchFrom(atoms, k + 1, s, i + n).ends]

\* the match object of a match of regex in s that starts at position i
MatchAt(regex, s, i) ==
    LET m == MatchFrom(regex.atoms, 1, s, i)
    IN  [found |-> m.ok, start |-> i, ends |-> m.ends]

NoMatch == [found |-> FALSE, start |-> 0, ends |-> <<>>]

\* regex.search(s): the leftmost match
Search(regex, s) ==
    LET starts == IF regex.anchored THEN {1} ELSE 1..(Len(s) + 1)
        hits == {i \in starts : MatchFrom(regex.atoms, 1, s, i).ok}
    IN  IF hits = {} THEN NoMatch ELSE MatchAt(regex, s, SetMin(hits))

\* regex.match(s): a match at position 0 of the string
Match(regex, s) ==
    IF MatchFrom(regex.atoms, 1, s, 1).ok THEN MatchAt(regex, s, 1) ELSE NoMatch

\* the text of group n of match m of regex in s; group 0 is the whole match
GroupText(regex, m, s, n) ==
    IF n = 0 THEN SubSeq(s, m.start, Last(m.ends) - 1)
    ELSE LET k == CHOOSE j \in 1..Len(regex.atoms) : regex.atoms[j].group = n
             from == IF k = 1 THEN m.start ELSE m.ends[k - 1]
         IN  SubSeq(s, from, m.ends[k] - 1)

\* m.expand(template); re raises an error for a reference to a group the
\* pattern does not have
RECURSIVE Expand(_, _, _, _)
Expand(regex, m, s, template) ==
    IF template = <<>> THEN [raised |-> "", s |-> <<>>]
    ELSE LET seg == Head(template)
             rest == Expand(regex, m, s, Tail(template))
         IN  IF "lit" \in DOMAIN seg
             THEN [raised |-> rest.raised, s |-> <<seg.lit>> \o rest.s]
             ELSE IF seg.ref > Groups(regex)
             THEN [raised |-> "re.error", s |-> <<>>]
             ELSE [raised |-> rest.raised,
                   s |-> GroupText(regex, m, s, seg.ref) \o rest.s]

DigitValue(c) ==
    CASE c = "0" -> 0 [] c = "1" -> 1 [] c = "2" -> 2 [] c = "3" -> 3
      [] c = "4" -> 4 [] c = "5" -> 5 [] c = "6" -> 6 [] c = "7" -> 7
      [] c = "8" -> 8 [] c = "9" -> 9

\* int() on the digits and underscores after the sign: a digit first, then
\* digits, each underscore between two digits
RECURSIVE IntDigits(_, _, _)
IntDigits(s, acc, prevDigit) ==
    IF s = <<>> THEN [ok |-> prevDigit, n |-> acc]
    ELSE IF Head(s) \in Digits
         THEN IntDigits(Tail(s), acc * 10 + DigitValue(Head(s)), TRUE)
         ELSE IF Head(s) = "_" /\ prevDigit
         THEN IntDigits(Tail(s), acc, FALSE)
         ELSE [ok |-> FALSE, n |-> 0]

\* line 205 with the leading digits taken for the number (as C's atoi)
IntOfPrefix(s) ==
    LET t == Strip(s)
        k == RunLen(Digits, t, 1)
    IN  IF k = 0 THEN [ok |-> FALSE, n |-> 0]
        ELSE IntDigits(SubSeq(t, 1, k), 0, FALSE)

\* line 205: int(attributes[f]) on a str: surrounding whitespace is
\* dropped, then a sign may come, then the digits; ok is FALSE where int
\* raises ValueError
PyInt(s) ==
    LET t == Strip(s)
        signed == t # <<>> /\ Head(t) \in {"+", "-"}
        body == IF signed THEN Tail(t) ELSE t
        digits == IF body = <<>> THEN [ok |-> FALSE, n |-> 0]
                  ELSE IntDigits(body, 0, FALSE)
    IN  IF ~digits.ok THEN [ok |-> FALSE, n |-> 0]
        ELSE [ok |-> TRUE,
              n |-> IF signed /\ Head(t) = "-" THEN 0 - digits.n ELSE digits.n]

\* dict[key] = value
Put(d, k, v) == [x \in DOMAIN d \cup {k} |-> IF x = k THEN v ELSE d[x]]

(***************************************************************************)
(* FeedHTTP.py: the Client and fetch_indicators_command.                   *)
(***************************************************************************)
PyNone == [none |-> TRUE]

IsNone(x) == "none" \in DOMAIN x

One(cls) == [cls |-> cls, plus |-> FALSE, group |-> 0]

Plus(cls, g) == [cls |-> cls, plus |-> TRUE, group |-> g]

\* the template \g<0>
WholeMatch == <<[ref |-> 0]>>

\* ^([0-9.]+)\t([0-9.]+) with transform \1-\2
PairStanza ==
    [ regex |-> [anchored |-> TRUE,
                 atoms |-> <<Plus(Digits \cup {"."}, 1), One({"\t"}),
                             Plus(Digits \cup {"."}, 2)>>],
      transform |-> <<[ref |-> 1], [lit |-> "-"], [ref |-> 2]>> ]

\* a([0-9]+) with no transform
GroupStanza ==
    [ regex |-> [anchored |-> FALSE, atoms |-> <<One({"a"}), Plus(Digits, 1)>>] ]

\* a([0-9]+) with transform \1
FirstGroupStanza ==
    [ regex |-> [anchored |-> FALSE, atoms |-> <<One({"a"}), Plus(Digits, 1)>>],
      transform |-> <<[ref |-> 1]>> ]

\* [^#]+ with no transform
NotHashStanza ==
    [ regex |-> [anchored |-> FALSE,
                 atoms |-> <<Plus(Digits \cup {"a", " ", "\t", "_", "-", "+", "."}, 0)>>] ]

\* [0-9]+ with no transform
NumberStanza ==
    [ regex |-> [anchored |-> FALSE, atoms |-> <<Plus(Digits, 0)>>] ]

\* the pattern #
HashRegex == [anchored |-> FALSE, atoms |-> <<One({"#"})>>]

\* the parameters of the instance: demisto.params()
FeedParams ==
    [ encoding : {PyNone, [name |-> "latin_1"]},
      ignore_regex : {PyNone, HashRegex},
      indicator : {PyNone, PairStanza, GroupStanza},
      fields : { <<>>,
                 <<[name |-> "num", stanza |-> NotHashStanza]>>,
                 <<[name |-> "first", stanza |-> FirstGroupStanza],
                   [name |-> "num", stanza |-> NotHashStanza]>>,
                 <<[name |-> "value", stanza |-> NumberStanza]>>,
                 <<[name |-> "type", stanza |-> NumberStanza]>> } ]

\* lines 100-103 with the first group for the default template
DefaultTransformFirstGroup(regex) ==
    IF Groups(regex) > 0 THEN <<[ref |-> 1]>> ELSE WholeMatch

\* lines 100-103, 111-114: the template of a stanza that has no transform
DefaultTransform(regex) == WholeMatch

\* lines 96-99, 107-110 without the check for 'regex'
CompileStanzaUnchecked(stanza) ==
    [ raised |-> "",
      rule |-> [ regex |-> IF "regex" \in DOMAIN stanza THEN stanza.regex
                           ELSE PyNone,
                 transform |-> IF "transform" \in DOMAIN stanza
                               THEN stanza.transform
                               ELSE WholeMatch ] ]

\* lines 96-103, 107-114: a stanza as __init__ leaves it
CompileStanza(stanza) ==
    IF "regex" \notin DOMAIN stanza THEN [raised |-> "ValueError"]
    ELSE [ raised |-> "",
           rule |-> [ regex |-> stanza.regex,
                      transform |-> IF "transform" \in DOMAIN stanza
                                    THEN stanza.transform
                                    ELSE DefaultTransform(stanza.regex) ] ]

\* lines 78-114: Client(**params)
NewClient(params) ==
    LET ind == IF IsNone(params.indicator) THEN [raised |-> "", rule |-> PyNone]
               ELSE CompileStanza(params.indicator)
        flds == [i \in 1..Len(params.fields) |->
                    CompileStanza(params.fields[i].stanza)]
    IN  IF ind.raised # "" THEN [raised |-> ind.raised]
        ELSE IF \E i \in 1..Len(flds) : flds[i].raised # ""
        THEN [raised |-> "ValueError"]
        ELSE [ raised |-> "",
               client |-> [ encoding |-> params.encoding,
                            ignore_regex |-> params.ignore_regex,
                            indicator |-> ind.rule,
                            fields |-> [i \in 1..Len(flds) |->
                                           [name |-> params.fields[i].name,
                                            rule |-> flds[i].rule]] ] ]

Alphabet == {"4", "a", " "}

\* "192.0.2.1\t192.0.2.9\t37\tACME"
ExampleLine ==
    << "1", "9", "2", ".", "0", ".", "2", ".", "1", "\t",
       "1", "9", "2", ".", "0", ".", "2", ".", "9", "\t",
       "3", "7", "\t", "A", "C", "M", "E" >>

\* the lines iter_lines may yield
FeedLines ==
    SeqsUpTo(Alphabet, MaxLineLen)
    \cup { ExampleLine,
           <<"4", "2">>,
           <<"4", "2", "a">>,
           <<"4", "_", "2">>,
           <<"#", "4">>,
           <<"4", "#">>,
           <<"#", " ", "-", "4">>,
           <<" ", "a", "4", "2", " ", "a", "\t">> }

\* lines 141-151: a line of iter_lines as build_iterator maps it; with an
\* encoding, x.decode(encoding).encode('utf_8') is a bytes object
Decoded(c, chars) == IF IsNone(c.encoding) THEN Str(chars) ELSE Bytes(chars)

\* a str pattern applied to a bytes object raises TypeError
PatternFits(x) == x.t = "str"

\* lines 152-156: the filter of build_iterator, run as the loop pulls a line
IgnoreFilter(c, x) ==
    IF IsNone(c.ignore_regex) THEN [raised |-> "", keep |-> TRUE]
    ELSE IF ~PatternFits(x) THEN [raised |-> "TypeError", keep |-> FALSE]
    ELSE [raised |-> "", keep |-> ~Match(c.ignore_regex, x.s).found]

\* lines 185-193: the indicator of a stripped, non-blank line
IndicatorOf(c, ln) ==
    IF IsNone(c.indicator)
    THEN [raised |-> "", found |-> TRUE, value |-> [t |-> ln.t, s |-> Split(ln.s)[1]]]
    ELSE IF ~PatternFits(ln) THEN [raised |-> "TypeError", found |-> FALSE]
    ELSE LET m == Search(c.indicator.regex, ln.s)
         IN  IF ~m.found THEN [raised |-> "", found |-> FALSE]
             ELSE LET e == Expand(c.indicator.regex, m, ln.s, c.indicator.transform)
                  IN  [raised |-> e.raised, found |-> TRUE, value |-> Str(e.s)]

\* lines 199-200 storing a null for the field
OnNoMatchNull(attrs, f) == Put(attrs, f, PyNone)

\* lines 199-200: if m is None: continue
OnNoMatch(attrs, f) == attrs

\* lines 204-209 with the leading digits taken for the number
CoercePrefix(chars) ==
    IF IntOfPrefix(chars).ok THEN [t |-> "int", n |-> IntOfPrefix(chars).n]
    ELSE Str(chars)

\* lines 204-209: the integer if int() takes the string, else the string
Coerce(chars) ==
    IF PyInt(chars).ok THEN [t |-> "int", n |-> PyInt(chars).n] ELSE Str(chars)

\* lines 196-209: the loop over client.fields, from field i on
RECURSIVE FieldsFrom(_, _, _, _)
FieldsFrom(flds, i, ln, attrs) ==
    IF i > Len(flds) THEN [raised |-> "", attributes |-> attrs]
    ELSE LET f == flds[i].name
             fattrs == flds[i].rule
         IN  IF ~PatternFits(ln) THEN [raised |-> "TypeError", attributes |-> attrs]
             ELSE LET m == Search(fattrs.regex, ln.s)
                  IN  IF ~m.found
                      THEN FieldsFrom(flds, i + 1, ln, OnNoMatch(attrs, f))
                      ELSE LET e == Expand(fattrs.regex, m, ln.s, fattrs.transform)
                           IN  IF e.raised # ""
                               THEN [raised |-> e.raised, attributes |-> attrs]
                               ELSE FieldsFrom(flds, i + 1, ln,
                                               Put(attrs, f, Coerce(e.s)))

\* the type the caller supplies
IndicatorType == Str(<<"I", "P">>)

FeedOff ==
    /\ client = PyNone
    /\ itype = IndicatorType
    /\ f_pc = "off"
    /\ nlines = 0
    /\ raw = Str(<<>>)
    /\ line = Str(<<>>)
    /\ indicator = Str(<<>>)
    /\ attributes = EmptyDict
    /\ indicators = <<>>
    /\ f_raised = ""
    /\ outcome = "start"
    /\ before = 0

\* lines 177-179: the command starts on a client that was constructed
FeedStarted ==
    /\ \E params \in FeedParams :
          /\ NewClient(params).raised = ""
          /\ client = NewClient(params).client
    /\ itype = IndicatorType
    /\ f_pc = "loop"
    /\ nlines = 0
    /\ raw = Str(<<>>)
    /\ line = Str(<<>>)
    /\ indicator = Str(<<>>)
    /\ attributes = EmptyDict
    /\ indicators = <<>>
    /\ f_raised = ""
    /\ outcome = "start"
    /\ before = 0

\* lines 180-193: the loop pulls the next line and finds its indicator
FeedNextLine ==
    /\ f_pc = "loop"
    /\ nlines < MaxLines
    /\ \E chars \in FeedLines :
          LET x == Decoded(client, chars)
              kept == IgnoreFilter(client, x)
              ln == [t |-> x.t, s |-> Strip(x.s)]
              ind == IndicatorOf(client, ln)
          IN  /\ raw' = x
              /\ IF kept.raised # ""
                 THEN /\ outcome' = "filter_error"
                      /\ f_raised' = kept.raised
                      /\ f_pc' = "raised"
                      /\ UNCHANGED <<line, indicator>>
                 ELSE IF ~kept.keep
                 THEN /\ outcome' = "ignored"
                      /\ UNCHANGED <<line, indicator, f_raised, f_pc>>
                 ELSE IF ln.s = <<>>
                 THEN /\ outcome' = "blank"
                      /\ line' = ln
                      /\ UNCHANGED <<indicator, f_raised, f_pc>>
                 ELSE IF ind.raised # ""
                 THEN /\ outcome' = "error"
                      /\ line' = ln
                      /\ f_raised' = ind.raised
                      /\ f_pc' = "raised"
                      /\ UNCHANGED indicator
                 ELSE IF ~ind.found
                 THEN /\ outcome' = "nomatch"
                      /\ line' = ln
                      /\ UNCHANGED <<indicator, f_raised, f_pc>>
                 ELSE /\ outcome' = "value"
                      /\ line' = ln
                      /\ indicator' = ind.value
                      /\ f_pc' = "fields"
                      /\ UNCHANGED f_raised
    /\ nlines' = nlines + 1
    /\ before' = Len(indicators)
    /\ UNCHANGED <<client, itype, attributes, indicators>>

\* lines 195-209: the attributes of the line
FeedFields ==
    /\ f_pc = "fields"
    /\ LET r == FieldsFrom(client.fields, 1, line, EmptyDict)
       IN  IF r.raised # ""
           THEN /\ outcome' = "error"
                /\ f_raised' = r.raised
                /\ f_pc' = "raised"
                /\ UNCHANGED attributes
           ELSE /\ attributes' = r.attributes
                /\ f_pc' = "emit"
                /\ UNCHANGED <<outcome, f_raised>>
    /\ UNCHANGED <<client, itype, nlines, raw, line, indicator, indicators, before>>

\* lines 213-219 with an extracted field named value or type kept
FeedEmitFieldsKept ==
    /\ f_pc = "emit"
    /\ LET withValue == IF "value" \in DOMAIN attributes THEN attributes
                        ELSE Put(attributes, "value", indicator)
           merged == IF "type" \in DOMAIN withValue THEN withValue
                     ELSE Put(withValue, "type", itype)
       IN  /\ attributes' = merged
           /\ indicators' = Append(indicators,
                                   [value |-> indicator, type |-> itype,
                                    rawJSON |-> merged])
    /\ outcome' = "record"
    /\ f_pc' = "loop"
    /\ UNCHANGED <<client, itype, nlines, raw, line, indicator, f_raised, before>>

\* lines 213-219 with a record that is already in the list left out
FeedEmitDedup ==
    /\ f_pc = "emit"
    /\ LET merged == Put(Put(attributes, "value", indicator), "type", itype)
           record == [value |-> indicator, type |-> itype, rawJSON |-> merged]
       IN  /\ attributes' = merged
           /\ indicators' = IF \E i \in 1..Len(indicators) : indicators[i] = record
                            THEN indicators
                            ELSE Append(indicators, record)
    /\ outcome' = "record"
    /\ f_pc' = "loop"
    /\ UNCHANGED <<client, itype, nlines, raw, line, indicator, f_raised, before>>

\* lines 213-219: value and type are merged in and the record is appended
FeedEmit ==
    /\ f_pc = "emit"
    /\ LET merged == Put(Put(attributes, "value", indicator), "type", itype)
       IN  /\ attributes' = merged
           /\ indicators' = Append(indicators,
                                   [value |-> indicator, type |-> itype,
                                    rawJSON |-> merged])
    /\ outcome' = "record"
    /\ f_pc' = "loop"
    /\ UNCHANGED <<client, itype, nlines, raw, line, indicator, f_raised, before>>

\* line 220: the iterator is exhausted, indicators is returned
FeedEnd ==
    /\ f_pc = "loop"
    /\ f_pc' = "done"
    /\ UNCHANGED <<client, itype, nlines, raw, line, indicator, attributes,
                   indicators, f_raised, outcome, before>>

(***************************************************************************)
(* FeedHTTP.py: main.                                                      *)
(***************************************************************************)
MainOff ==
    /\ demisto_params = PyNone
    /\ command = ""
    /\ m_pc = "off"
    /\ gets = 0
    /\ status = ""
    /\ created = <<>>
    /\ outputs = <<>>
    /\ errors = <<>>
    /\ m_raised = ""
    /\ escaped = ""

\* line 244: batch_size=2000
SubmitBatchSize == 2000

\* the commands the host may call the integration with
FeedCommands ==
    {"test-module", "get-indicators", "fetch-indicators", "no-such-command"}

\* line 236-239: the keys of the dict commands
FeedCommandTable == {"test-module", "get-indicators"}

\* no encoding, no ignore pattern, no rule
PlainParams ==
    [encoding |-> PyNone, ignore_regex |-> PyNone, indicator |-> PyNone,
     fields |-> <<>>]

\* an Indicator Rule: transform \1 and no regex
PatternlessStanza == [transform |-> <<[ref |-> 1]>>]

\* a([0-9]+) with transform \2: the template names a group the pattern
\* does not have, which expand() finds out when the pattern is found
BadRefStanza ==
    [ regex |-> [anchored |-> FALSE, atoms |-> <<One({"a"}), Plus(Digits, 1)>>],
      transform |-> <<[ref |-> 2]>> ]

\* the parameters main may find: well-formed ones and ones with a rule
\* that has no pattern
MainParams ==
    { PlainParams,
      [PlainParams EXCEPT !.fields = <<[name |-> "num", stanza |-> BadRefStanza]>>],
      [PlainParams EXCEPT !.encoding = [name |-> "latin_1"],
                          !.ignore_regex = HashRegex],
      [PlainParams EXCEPT !.ignore_regex = HashRegex,
                          !.indicator = GroupStanza,
                          !.fields = <<[name |-> "num", stanza |-> NotHashStanza]>>],
      [PlainParams EXCEPT !.indicator = PatternlessStanza],
      [PlainParams EXCEPT !.fields = <<[name |-> "num", stanza |-> NumberStanza],
                                       [name |-> "first",
                                        stanza |-> PatternlessStanza]>>] }

\* lines 230-233: main is entered
MainEntered ==
    /\ demisto_params \in MainParams
    /\ command \in FeedCommands
    /\ m_pc = "construct"
    /\ gets = 0
    /\ status = ""
    /\ created = <<>>
    /\ outputs = <<>>
    /\ errors = <<>>
    /\ m_raised = ""
    /\ escaped = ""

\* line 232: client = Client(**params), before the try statement: an
\* exception of __init__ leaves main
MainConstruct ==
    /\ m_pc = "construct"
    /\ LET made == NewClient(demisto_params)
       IN  IF made.raised # ""
           THEN /\ escaped' = made.raised
                /\ m_pc' = "escaped"
                /\ UNCHANGED client
           ELSE /\ client' = made.client
                /\ m_pc' = "dispatch"
                /\ UNCHANGED escaped
    /\ UNCHANGED <<demisto_params, command, gets, status, created, outputs,
                   errors, m_raised>>
    /\ UNCHANGED <<itype, f_pc, nlines, raw, line, indicator, attributes,
                   indicators, f_raised, outcome, before>>

\* line 247: commands[command] of a command that is not in the dict
MainUnknownCommand ==
    /\ m_pc = "dispatch"
    /\ command # "fetch-indicators"
    /\ command \notin FeedCommandTable
    /\ m_raised' = "KeyError"
    /\ m_pc' = "failed"
    /\ UNCHANGED <<demisto_params, command, gets, status, created, outputs,
                   errors, escaped>>
    /\ UNCHANGED feedVars

\* the command calls build_iterator
CallsBuildIterator == command = "fetch-indicators" \/ command \in FeedCommandTable

\* lines 131-139 with the status never looked at
MainBuildIteratorStatusIgnored ==
    /\ m_pc = "dispatch"
    /\ CallsBuildIterator
    /\ gets' = gets + 1
    /\ status' = "bad"
    /\ IF command = "test-module"
       THEN /\ outputs' = Append(outputs, [readable_output |-> "ok"])
            /\ m_pc' = "done"
       ELSE /\ m_pc' = "failed"
            /\ UNCHANGED outputs
    /\ m_raised' = IF command = "test-module" THEN "" ELSE "HTTPError"
    /\ UNCHANGED <<demisto_params, command, created, errors, escaped>>
    /\ UNCHANGED feedVars

\* lines 131-139: the GET is issued and raise_for_status raises
MainBuildIteratorFails ==
    /\ m_pc = "dispatch"
    /\ CallsBuildIterator
    /\ gets' = gets + 1
    /\ status' = "bad"
    /\ m_raised' = "HTTPError"
    /\ m_pc' = "failed"
    /\ UNCHANGED <<demisto_params, command, created, outputs, errors, escaped>>
    /\ UNCHANGED feedVars

\* lines 172-174, 247-248: test_module; the iterator is built, no line read
MainTestModule ==
    /\ m_pc = "dispatch"
    /\ command = "test-module"
    /\ gets' = gets + 1
    /\ status' = "ok"
    /\ outputs' = Append(outputs, [readable_output |-> "ok"])
    /\ m_pc' = "done"
    /\ UNCHANGED <<demisto_params, command, created, errors, m_raised, escaped>>
    /\ UNCHANGED feedVars

\* lines 224, 242, 178-179: fetch_indicators_command is called and builds
\* the iterator
MainFetchIndicators ==
    /\ m_pc = "dispatch"
    /\ command \in {"get-indicators", "fetch-indicators"}
    /\ gets' = gets + 1
    /\ status' = "ok"
    /\ f_pc' = "loop"
    /\ m_pc' = "loop"
    /\ UNCHANGED <<demisto_params, command, created, outputs, errors, m_raised,
                   escaped>>
    /\ UNCHANGED <<client, itype, nlines, raw, line, indicator, attributes,
                   indicators, f_raised, outcome, before>>

\* the except clause handing over the records made before the exception
MainLoopRaisedSubmitsPartial ==
    /\ m_pc = "loop"
    /\ f_pc = "raised"
    /\ m_raised' = f_raised
    /\ m_pc' = "failed"
    /\ created' = IF command = "fetch-indicators" /\ indicators # <<>>
                  THEN Append(created, [b |-> indicators, ok |-> TRUE])
                  ELSE created
    /\ UNCHANGED <<demisto_params, command, gets, status, outputs, errors, escaped>>
    /\ UNCHANGED feedVars

\* an exception of fetch_indicators_command reaches the except clause
MainLoopRaised ==
    /\ m_pc = "loop"
    /\ f_pc = "raised"
    /\ m_raised' = f_raised
    /\ m_pc' = "failed"
    /\ UNCHANGED <<demisto_params, command, gets, status, created, outputs,
                   errors, escaped>>
    /\ UNCHANGED feedVars

\* lines 223-225, 247-248: get_indicators returns, return_outputs
MainGetIndicators ==
    /\ m_pc = "loop"
    /\ f_pc = "done"
    /\ command = "get-indicators"
    /\ outputs' = Append(outputs, [readable_output |-> "",
                                   raw_response |-> indicators])
    /\ m_pc' = "done"
    /\ UNCHANGED <<demisto_params, command, gets, status, created, errors,
                   m_raised, escaped>>
    /\ UNCHANGED feedVars

\* line 244: batch(indicators, batch_size=2000) is called
MainBatchCall ==
    /\ m_pc = "loop"
    /\ f_pc = "done"
    /\ command = "fetch-indicators"
    /\ iterable' = indicators
    /\ batch_size' = SubmitBatchSize
    /\ b_pos' = 1
    /\ current_batch' = <<>>
    /\ yielded' = <<>>
    /\ b_pc' = "loop"
    /\ m_pc' = "batches"
    /\ UNCHANGED <<demisto_params, command, gets, status, created, outputs,
                   errors, m_raised, escaped>>
    /\ UNCHANGED feedVars

\* the for statement of line 244 has handled every batch yielded so far
BatchesHandled == m_pc = "batches" /\ Len(created) = Len(yielded)

\* lines 163-169: the for statement of line 244 resumes the generator, which
\* runs to its next yield: up to the first item that fills current_batch,
\* or to the end of the iterable and the batch that is left
BatchNext ==
    /\ BatchesHandled
    /\ b_pc = "loop"
    /\ LET upTo(k) == current_batch \o SubSeq(iterable, b_pos, k)
           fulls == {k \in b_pos..Len(iterable) : BatchFull(upTo(k), batch_size)}
       IN  IF fulls # {}
           THEN /\ yielded' = Append(yielded, upTo(SetMin(fulls)))
                /\ current_batch' = <<>>
                /\ b_pos' = SetMin(fulls) + 1
                /\ b_pc' = "loop"
           ELSE /\ yielded' = yielded \o TailBatch(upTo(Len(iterable)))
                /\ current_batch' = upTo(Len(iterable))
                /\ b_pos' = Len(iterable) + 1
                /\ b_pc' = "done"
    /\ UNCHANGED <<iterable, batch_size>>

\* line 245 going on to the next batch when createIndicators raises
MainCreateIndicatorsGoesOn ==
    /\ m_pc = "batches"
    /\ Len(created) < Len(yielded)
    /\ \E ok \in BOOLEAN :
          created' = Append(created, [b |-> yielded[Len(created) + 1], ok |-> ok])
    /\ UNCHANGED <<demisto_params, command, m_pc, gets, status, outputs, errors,
                   m_raised, escaped>>
    /\ UNCHANGED <<batchVars, feedVars>>

\* line 245: demisto.createIndicators(b) returns or raises
MainCreateIndicators ==
    /\ m_pc = "batches"
    /\ Len(created) < Len(yielded)
    /\ \E ok \in BOOLEAN :
          /\ created' = Append(created, [b |-> yielded[Len(created) + 1], ok |-> ok])
          /\ IF ok THEN UNCHANGED <<m_pc, m_raised>>
             ELSE m_raised' = "Exception" /\ m_pc' = "failed"
    /\ UNCHANGED <<demisto_params, command, gets, status, outputs, errors, escaped>>
    /\ UNCHANGED <<batchVars, feedVars>>

\* line 244: the generator is exhausted, the for statement ends
MainBatchesDone ==
    /\ BatchesHandled
    /\ b_pc = "done"
    /\ m_pc' = "done"
    /\ UNCHANGED <<demisto_params, command, gets, status, created, outputs,
                   errors, m_raised, escaped>>
    /\ UNCHANGED <<batchVars, feedVars>>

\* lines 249-251: return_error(err_msg)
MainReturnError ==
    /\ m_pc = "failed"
    /\ errors' = Append(errors, m_raised)
    /\ m_pc' = "done"
    /\ UNCHANGED <<demisto_params, command, gets, status, created, outputs,
                   m_raised, escaped>>
    /\ UNCHANGED <<batchVars, feedVars>>

\* the record fetch_indicators_command makes of the i-th line of a feed
\* whose i-th line is the token i
RecordOfLine(i) ==
    [value |-> i, type |-> IndicatorType,
     rawJSON |-> [value |-> i, type |-> IndicatorType]]

\* the numbers of records of the feeds main submits
SubmitCounts ==
    (0..3) \cup ((SubmitBatchSize - 2)..(SubmitBatchSize + 2))
           \cup ((2 * SubmitBatchSize - 2)..(2 * SubmitBatchSize + 2))

\* line 243: fetch_indicators_command has returned the records of a feed
MainFetched ==
    /\ \E n \in SubmitCounts :
          /\ indicators = [i \in 1..n |-> RecordOfLine(i)]
          /\ nlines = n
          /\ before = IF n = 0 THEN 0 ELSE n - 1
          /\ outcome = IF n = 0 THEN "start" ELSE "record"
    /\ client = NewClient(PlainParams).client
    /\ itype = IndicatorType
    /\ f_pc = "done"
    /\ raw = Str(<<>>)
    /\ line = Str(<<>>)
    /\ indicator = Str(<<>>)
    /\ attributes = EmptyDict
    /\ f_raised = ""
    /\ demisto_params = PlainParams
    /\ command = "fetch-indicators"
    /\ m_pc = "loop"
    /\ gets = 1
    /\ status = "ok"
    /\ created = <<>>
    /\ outputs = <<>>
    /\ errors = <<>>
    /\ m_raised = ""
    /\ escaped = ""

(***************************************************************************)
(* Securonix.py: the Client and main.                                      *)
(*                                                                         *)
(* An HTTP response is [status, text].  The text of a successful answer    *)
(* to /token/generate is the token; the text of a successful answer to a   *)
(* vendor request is "result", a JSON body the command can use, or         *)
(* "unusable", a JSON body that makes the command raise (no 'result'       *)
(* key, an 'error' key, a result that is not 'submitted', ...).            *)
(***************************************************************************)
NoError == [type |-> "", message |-> ""]

ApiOff ==
    /\ a_command = ""
    /\ a_pc = "off"
    /\ token = ""
    /\ requests = <<>>
    /\ pending = <<>>
    /\ a_outputs = <<>>
    /\ a_errors = <<>>
    /\ a_raised = NoError

\* the commands the host may call the integration with
ApiCommands ==
    {"test-module", "securonix-list-incidents",
     "securonix-perform-action-on-incident", "fetch-incidents",
     "no-such-command"}

\* lines 1117-1140, 1141: the commands main knows
ApiCommandTable == ApiCommands \ {"no-such-command"}

HttpStatuses == {200, 401, 500}

\* line 108: result.ok
Ok(response) == response.status < 400

TokenResponses == [status : HttpStatuses, text : {"token1", "token2"}]

VendorResponses == [status : HttpStatuses, text : {"result", "unusable"}]

TokenUrl == "/token/generate"

\* lines 152-157: the headers of the token request
CredentialHeaders ==
    [username |-> "username", password |-> "password", validity |-> "1",
     tenant |-> "tenant"]

\* the vendor requests of a command, in the order it issues them
\* (lines 173, 300, 382 and 389)
RequestsOf(cmd) ==
    IF cmd = "securonix-perform-action-on-incident"
    THEN <<"/incident/get", "/incident/actions">>
    ELSE <<"/incident/get">>

\* lines 108-109, 143-144: the error of a response that is not ok
HttpError(response) ==
    [type |-> "Exception",
     message |-> [status |-> response.status, text |-> response.text]]

\* lines 1097-1112: main is entered
ApiEntered ==
    /\ a_command \in ApiCommands
    /\ a_pc = "construct"
    /\ token = ""
    /\ requests = <<>>
    /\ pending = <<>>
    /\ a_outputs = <<>>
    /\ a_errors = <<>>
    /\ a_raised = NoError

\* lines 1115-1116, 86-92, 146-159: Client(...) generates the token
ApiGenerateToken ==
    /\ a_pc = "construct"
    /\ \E response \in TokenResponses :
          /\ requests' = Append(requests, [url |-> TokenUrl,
                                           headers |-> CredentialHeaders,
                                           response |-> response])
          /\ IF Ok(response)
             THEN /\ token' = response.text
                  /\ a_pc' = "dispatch"
                  /\ UNCHANGED a_raised
             ELSE /\ a_raised' = HttpError(response)
                  /\ a_pc' = "failed"
                  /\ UNCHANGED token
    /\ UNCHANGED <<a_command, pending, a_outputs, a_errors>>

\* lines 1141-1152: the command is looked up
ApiDispatch ==
    /\ a_pc = "dispatch"
    /\ IF a_command \in ApiCommandTable
       THEN /\ pending' = RequestsOf(a_command)
            /\ a_pc' = "request"
            /\ UNCHANGED a_raised
       ELSE /\ a_raised' = [type |-> "NotImplementedError",
                            message |-> a_command]
            /\ a_pc' = "failed"
            /\ UNCHANGED pending
    /\ UNCHANGED <<a_command, token, requests, a_outputs, a_errors>>

\* a vendor request sent with no token header
ApiRequestNoToken ==
    /\ a_pc = "request"
    /\ pending # <<>>
    /\ \E response \in VendorResponses :
          /\ requests' = Append(requests, [url |-> Head(pending),
                                           headers |-> EmptyDict,
                                           response |-> response])
          /\ IF ~Ok(response)
             THEN /\ a_raised' = HttpError(response)
                  /\ a_pc' = "failed"
                  /\ UNCHANGED pending
             ELSE IF response.text = "unusable"
             THEN /\ a_raised' = [type |-> "Exception", message |-> "unusable"]
                  /\ a_pc' = "failed"
                  /\ UNCHANGED pending
             ELSE /\ pending' = Tail(pending)
                  /\ UNCHANGED <<a_raised, a_pc>>
    /\ UNCHANGED <<a_command, token, a_outputs, a_errors>>

\* a vendor request that is sent again when the response is not ok
ApiRequestRetrying ==
    /\ a_pc = "request"
    /\ pending # <<>>
    /\ \E response \in VendorResponses :
          /\ requests' = Append(requests, [url |-> Head(pending),
                                           headers |-> [token |-> token],
                                           response |-> response])
          /\ IF ~Ok(response)
             THEN UNCHANGED <<a_raised, a_pc, pending>>
             ELSE IF response.text = "unusable"
             THEN /\ a_raised' = [type |-> "Exception", message |-> "unusable"]
                  /\ a_pc' = "failed"
                  /\ UNCHANGED pending
             ELSE /\ pending' = Tail(pending)
                  /\ UNCHANGED <<a_raised, a_pc>>
    /\ UNCHANGED <<a_command, token, a_outputs, a_errors>>

\* lines 94-144 as the request methods call it (lines 173, 300, 382, 389):
\* the next vendor request of the command, with the token as a header
ApiRequest ==
    /\ a_pc = "request"
    /\ pending # <<>>
    /\ \E response \in VendorResponses :
          /\ requests' = Append(requests, [url |-> Head(pending),
                                           headers |-> [token |-> token],
                                           response |-> response])
          /\ IF ~Ok(response)
             THEN /\ a_raised' = HttpError(response)
                  /\ a_pc' = "failed"
                  /\ UNCHANGED pending
             ELSE IF response.text = "unusable"
             THEN /\ a_raised' = [type |-> "Exception", message |-> "unusable"]
                  /\ a_pc' = "failed"
                  /\ UNCHANGED pending
             ELSE /\ pending' = Tail(pending)
                  /\ UNCHANGED <<a_raised, a_pc>>
    /\ UNCHANGED <<a_command, token, a_outputs, a_errors>>

\* lines 1147-1150, 539: the command returns and its results go to the host
ApiReturn ==
    /\ a_pc = "request"
    /\ pending = <<>>
    /\ a_outputs' =
          IF a_command = "fetch-incidents" THEN <<"incidents", "setLastRun">>
          ELSE IF a_command = "test-module" THEN <<"results", "return_outputs">>
          ELSE <<"return_outputs">>
    /\ a_pc' = "done"
    /\ UNCHANGED <<a_command, token, requests, pending, a_errors, a_raised>>

\* lines 1154-1155: return_error(str(err))
ApiReturnError ==
    /\ a_pc = "failed"
    /\ a_errors' = Append(a_errors, a_raised.message)
    /\ a_pc' = "done"
    /\ UNCHANGED <<a_command, token, requests, pending, a_outputs, a_raised>>

(***************************************************************************)
(* Securonix.py: the command securonix-perform-action-on-incident, with    *)
(* the JSON bodies of the vendor's answers.  A JSON object is a function   *)
(* on its keys; the value under 'result' carries its JSON type.            *)
(***************************************************************************)
JsonStr(x) == [type |-> "str", s |-> x]

JsonDict(x) == [type |-> "dict", d |-> x]

\* lines 377-381: the parameters of both requests
ActionParams(incident_id, action) ==
    [type |-> "actionInfo", incidentId |-> incident_id, actionName |-> action]

\* lines 382 and 389: the requests of perform_action_on_incident_request
ActionRequests(incident_id, action) ==
    << [method |-> "GET", url |-> "/incident/get",
        params |-> ActionParams(incident_id, action)],
       [method |-> "POST", url |-> "/incident/actions",
        params |-> ActionParams(incident_id, action)] >>

\* the answers to the GET of line 382
ActionInfoResponses ==
    [ status : HttpStatuses,
      text : { [result |-> "info"],
               [error |-> "denied"],
               [error |-> "denied", result |-> "info"] } ]

\* the answers to the POST of line 389
ActionResponses ==
    [ status : HttpStatuses,
      text : { [result |-> JsonStr("submitted")],
               [result |-> JsonStr("failed")],
               [result |-> JsonDict([result |-> "submitted"])],
               [result |-> JsonDict([result |-> "failed"])],
               [status |-> "OK"] } ]

\* lines 862-864 and main line 1150: the command is called on a client
\* that holds its token
ActionCalled ==
    /\ a_command = "securonix-perform-action-on-incident"
    /\ a_pc = "request"
    /\ token \in {"token1", "token2"}
    /\ requests = << [method |-> "GET", url |-> TokenUrl,
                      headers |-> CredentialHeaders,
                      response |-> [status |-> 200, text |-> token]] >>
    /\ \E incident_id \in {"10", "20"} : \E action \in {"ASSIGN", "CLOSE"} :
          pending = ActionRequests(incident_id, action)
    /\ a_outputs = <<>>
    /\ a_errors = <<>>
    /\ a_raised = NoError

\* lines 382-387: the GET for the action info
ActionGet ==
    /\ a_pc = "request"
    /\ Len(pending) = 2
    /\ \E response \in ActionInfoResponses :
          LET possible_action == response.text
          IN  /\ requests' = Append(requests,
                                    [method |-> Head(pending).method,
                                     url |-> Head(pending).url,
                                     params |-> Head(pending).params,
                                     headers |-> [token |-> token],
                                     response |-> response])
              /\ IF ~Ok(response)
                 THEN /\ a_raised' = HttpError(response)
                      /\ a_pc' = "failed"
                      /\ UNCHANGED pending
                 ELSE IF "error" \in DOMAIN possible_action
                 THEN /\ a_raised' = [type |-> "Exception",
                                      message |-> [failed |-> Head(pending).params,
                                                   error |-> possible_action.error]]
                      /\ a_pc' = "failed"
                      /\ UNCHANGED pending
                 ELSE /\ pending' = Tail(pending)
                      /\ UNCHANGED <<a_raised, a_pc>>
    /\ UNCHANGED <<a_command, token, a_outputs, a_errors>>

\* lines 389-390, 865-870 and main line 1150: the POST, and what the command
\* makes of the value the request method returns
ActionPost ==
    /\ a_pc = "request"
    /\ Len(pending) = 1
    /\ \E response \in ActionResponses :
          /\ requests' = Append(requests,
                                [method |-> Head(pending).method,
                                 url |-> Head(pending).url,
                                 params |-> Head(pending).params,
                                 headers |-> [token |-> token],
                                 response |-> response])
          /\ IF ~Ok(response)
             THEN /\ a_raised' = HttpError(response)
                  /\ a_pc' = "failed"
                  /\ UNCHANGED a_outputs
             ELSE IF "result" \notin DOMAIN response.text
             THEN \* line 390 returns None; line 866: None has no get
                  /\ a_raised' = [type |-> "AttributeError", message |-> "NoneType"]
                  /\ a_pc' = "failed"
                  /\ UNCHANGED a_outputs
             ELSE LET incident == response.text.result
                  IN  IF incident.type # "dict"
                      THEN \* line 866: a str has no get
                           /\ a_raised' = [type |-> "AttributeError",
                                           message |-> "str"]
                           /\ a_pc' = "failed"
                           /\ UNCHANGED a_outputs
                      ELSE IF Get(incident.d, "result", "None") # "submitted"
                      THEN /\ a_raised' = [type |-> "Exception",
                                           message |-> [failed |-> Head(pending).params]]
                           /\ a_pc' = "failed"
                           /\ UNCHANGED a_outputs
                      ELSE /\ a_outputs' = <<[performed |-> Head(pending).params]>>
                           /\ a_pc' = "done"
                           /\ UNCHANGED a_raised
    /\ pending' = Tail(pending)
    /\ UNCHANGED <<a_command, token, a_errors>>

(***************************************************************************)
(* Securonix.py: the base URL main builds of the tenant, lines 1097-1104.  *)
(* A string is the sequence of its characters.                             *)
(***************************************************************************)
UrlOff ==
    /\ tenant = <<>>
    /\ server_url = <<>>
    /\ u_pc = "off"

\* str.startswith
StartsWith(s, prefix) ==
    Len(s) >= Len(prefix) /\ SubSeq(s, 1, Len(prefix)) = prefix

\* str.endswith
EndsWith(s, suffix) ==
    Len(s) >= Len(suffix) /\ SubSeq(s, Len(s) - Len(suffix) + 1, Len(s)) = suffix

\* 'http://'
HttpScheme == <<"h", "t", "t", "p", ":", "/", "/">>

\* 'https://'
HttpsScheme == <<"h", "t", "t", "p", "s", ":", "/", "/">>

\* '.securonix.net/Snypr/ws/'
WsSuffix ==
    <<".", "s", "e", "c",
       "u", "r", "o", "n", "i", "x", ".", "n", "e", "t", "/", "S", "n", "y", "p", "r", "/", "w", "s", "/">>

\* line 1103 with the suffix appended whatever the tenant ends with
NeedsSuffixAlways(t) == TRUE

\* line 1103: if not tenant.endswith('.securonix.net/Snypr/ws/')
NeedsSuffix(t) == ~EndsWith(t, WsSuffix)

\* line 1101: the tenant starts with neither scheme
NeedsScheme(t) == ~StartsWith(t, HttpScheme) /\ ~StartsWith(t, HttpsScheme)

\* lines 1099-1104: server_url as main builds it of the tenant
ServerUrl(t) ==
    LET withScheme == IF NeedsScheme(t) THEN HttpsScheme \o t ELSE t
    IN  IF NeedsSuffix(t) THEN withScheme \o WsSuffix ELSE withScheme

\* what a configured tenant may start with
TenantStarts ==
    { <<>>, HttpScheme, HttpsScheme,
      <<"h", "t", "t", "p", ":", "/">>,
      <<"f", "t", "p", ":", "/", "/">>,
      <<"H", "T", "T", "P", "S", ":", "/", "/">> }

TenantHosts ==
    { <<>>, <<"a", "c", "m", "e">>,
      <<"a", ".", "b">> }

\* what a configured tenant may end with
TenantEnds ==
    { <<>>, WsSuffix,
      <<".", "s", "e", "c", "u", "r", "o", "n", "i", "x", ".", "n", "e", "t", "/", "S", "n", "y", "p", "r", "/", "w", "s">>,
      <<".", "s", "e", "c", "u", "r", "o", "n", "i", "x", ".", "n", "e", "t">>,
      <<"/", "S", "n", "y", "p", "r", "/", "w", "s", "/">> }

\* the values of the parameter tenant
Tenants ==
    {a \o h \o z : a \in TenantStarts, h \in TenantHosts, z \in TenantEnds}

\* line 1099: tenant = params.get("tenant")
UrlParams ==
    /\ tenant \in Tenants
    /\ server_url = <<>>
    /\ u_pc = "params"

\* lines 1100-1104
UrlBuild ==
    /\ u_pc = "params"
    /\ server_url' = ServerUrl(tenant)
    /\ u_pc' = "built"
    /\ UNCHANGED tenant

(***************************************************************************)
(* The specifications.                                                     *)
(***************************************************************************)
\* fetch_incidents called with any last_run
InitFetch ==
    SiemIdle /\ lastRun \in LastRunArgs /\ BatchOff /\ FeedOff /\ MainOff /\ ApiOff /\ UrlOff

\* the host starts with no cursor stored
InitSched ==
    SiemIdle /\ lastRun = EmptyDict /\ BatchOff /\ FeedOff /\ MainOff /\ ApiOff /\ UrlOff

NextSiem ==
    \/ SiemStart /\ UNCHANGED <<batchVars, feedVars, mainVars, apiVars, urlVars>>
    \/ SiemList /\ UNCHANGED <<batchVars, feedVars, mainVars, apiVars, urlVars>>
    \/ SiemListFails /\ UNCHANGED <<batchVars, feedVars, mainVars, apiVars, urlVars>>
    \/ SiemBuild /\ UNCHANGED <<batchVars, feedVars, mainVars, apiVars, urlVars>>
    \/ SiemCursor /\ UNCHANGED <<batchVars, feedVars, mainVars, apiVars, urlVars>>
    \/ SiemIncidents /\ UNCHANGED <<batchVars, feedVars, mainVars, apiVars, urlVars>>
    \/ SiemSetLastRun /\ UNCHANGED <<batchVars, feedVars, mainVars, apiVars, urlVars>>
    \/ SiemError /\ UNCHANGED <<batchVars, feedVars, mainVars, apiVars, urlVars>>

SpecFetch == InitFetch /\ [][NextSiem]_vars

SpecSched == InitSched /\ [][NextSiem]_vars

NextBatch ==
    \/ BatchItem /\ UNCHANGED <<siemVars, feedVars, mainVars, apiVars, urlVars>>
    \/ BatchEnd /\ UNCHANGED <<siemVars, feedVars, mainVars, apiVars, urlVars>>

InitBatch == BatchCalled /\ SiemOff /\ FeedOff /\ MainOff /\ ApiOff /\ UrlOff

SpecBatch == InitBatch /\ [][NextBatch]_vars

InitFeed == FeedStarted /\ BatchOff /\ SiemOff /\ MainOff /\ ApiOff /\ UrlOff

NextFeed ==
    \/ FeedNextLine /\ UNCHANGED <<batchVars, siemVars, mainVars, apiVars, urlVars>>
    \/ FeedFields /\ UNCHANGED <<batchVars, siemVars, mainVars, apiVars, urlVars>>
    \/ FeedEmit /\ UNCHANGED <<batchVars, siemVars, mainVars, apiVars, urlVars>>
    \/ FeedEnd /\ UNCHANGED <<batchVars, siemVars, mainVars, apiVars, urlVars>>

SpecFeed == InitFeed /\ [][NextFeed]_vars

InitFeedMain == MainEntered /\ FeedOff /\ BatchOff /\ SiemOff /\ ApiOff /\ UrlOff

NextFeedMain ==
    \/ MainConstruct /\ UNCHANGED <<batchVars, siemVars, apiVars, urlVars>>
    \/ MainUnknownCommand /\ UNCHANGED <<batchVars, siemVars, apiVars, urlVars>>
    \/ MainBuildIteratorFails /\ UNCHANGED <<batchVars, siemVars, apiVars, urlVars>>
    \/ MainTestModule /\ UNCHANGED <<batchVars, siemVars, apiVars, urlVars>>
    \/ MainFetchIndicators /\ UNCHANGED <<batchVars, siemVars, apiVars, urlVars>>
    \/ FeedNextLine /\ UNCHANGED <<batchVars, siemVars, mainVars, apiVars, urlVars>>
    \/ FeedFields /\ UNCHANGED <<batchVars, siemVars, mainVars, apiVars, urlVars>>
    \/ FeedEmit /\ UNCHANGED <<batchVars, siemVars, mainVars, apiVars, urlVars>>
    \/ FeedEnd /\ UNCHANGED <<batchVars, siemVars, mainVars, apiVars, urlVars>>
    \/ MainLoopRaised /\ UNCHANGED <<batchVars, siemVars, apiVars, urlVars>>
    \/ MainGetIndicators /\ UNCHANGED <<batchVars, siemVars, apiVars, urlVars>>
    \/ MainBatchCall /\ UNCHANGED <<siemVars, apiVars, urlVars>>
    \/ BatchNext /\ UNCHANGED <<siemVars, feedVars, mainVars, apiVars, urlVars>>
    \/ MainCreateIndicators /\ UNCHANGED <<siemVars, apiVars, urlVars>>
    \/ MainBatchesDone /\ UNCHANGED <<siemVars, apiVars, urlVars>>
    \/ MainReturnError /\ UNCHANGED <<siemVars, apiVars, urlVars>>

SpecFeedMain == InitFeedMain /\ [][NextFeedMain]_vars

InitSubmit == MainFetched /\ BatchOff /\ SiemOff /\ ApiOff /\ UrlOff

NextSubmit ==
    \/ MainBatchCall /\ UNCHANGED <<siemVars, apiVars, urlVars>>
    \/ BatchNext /\ UNCHANGED <<siemVars, feedVars, mainVars, apiVars, urlVars>>
    \/ MainCreateIndicators /\ UNCHANGED <<siemVars, apiVars, urlVars>>
    \/ MainBatchesDone /\ UNCHANGED <<siemVars, apiVars, urlVars>>
    \/ MainReturnError /\ UNCHANGED <<siemVars, apiVars, urlVars>>

SpecSubmit == InitSubmit /\ [][NextSubmit]_vars

InitApi == ApiEntered /\ BatchOff /\ SiemOff /\ FeedOff /\ MainOff /\ UrlOff

NextApi ==
    \/ ApiGenerateToken /\ UNCHANGED <<batchVars, siemVars, feedVars, mainVars, urlVars>>
    \/ ApiDispatch /\ UNCHANGED <<batchVars, siemVars, feedVars, mainVars, urlVars>>
    \/ ApiRequest /\ UNCHANGED <<batchVars, siemVars, feedVars, mainVars, urlVars>>
    \/ ApiReturn /\ UNCHANGED <<batchVars, siemVars, feedVars, mainVars, urlVars>>
    \/ ApiReturnError /\ UNCHANGED <<batchVars, siemVars, feedVars, mainVars, urlVars>>

SpecApi == InitApi /\ [][NextApi]_vars

InitUrl == UrlParams /\ BatchOff /\ SiemOff /\ FeedOff /\ MainOff /\ ApiOff

NextUrl ==
    \/ UrlBuild /\ UNCHANGED <<batchVars, siemVars, feedVars, mainVars, apiVars>>

SpecUrl == InitUrl /\ [][NextUrl]_vars

InitAction == ActionCalled /\ BatchOff /\ SiemOff /\ FeedOff /\ MainOff /\ UrlOff

NextAction ==
    \/ ActionGet /\ UNCHANGED <<batchVars, siemVars, feedVars, mainVars, urlVars>>
    \/ ActionPost /\ UNCHANGED <<batchVars, siemVars, feedVars, mainVars, urlVars>>
    \/ ApiReturnError /\ UNCHANGED <<batchVars, siemVars, feedVars, mainVars, urlVars>>

SpecAction == InitAction /\ [][NextAction]_vars

(***************************************************************************)
(* C1: concatenating the batches batch() yields, in the order they are     *)
(* yielded, reproduces the input sequence: nothing dropped, duplicated or  *)
(* reordered.  While the generator runs, the batches yielded so far        *)
(* followed by current_batch are the records consumed so far.              *)
(***************************************************************************)
C1_ConcatReproducesInput ==
    /\ b_pc = "loop" =>
          Flatten(yielded) \o current_batch = SubSeq(iterable, 1, b_pos - 1)
    /\ b_pc = "done" => Flatten(yielded) = iterable

C1_Witness ==
    /\ b_pc = "done"
    /\ Len(yielded) >= 2
    /\ Len(Last(yielded)) < batch_size
    /\ Cardinality({iterable[i] : i \in 1..Len(iterable)}) >= 2

(***************************************************************************)
(* C2: for N records and batch size B >= 1, batch() yields ceil(N/B)       *)
(* batches, each non-empty, all but the last of exactly B records, the     *)
(* last of 1..B records; for N = 0 it yields none.                         *)
(***************************************************************************)
CeilDiv(n, b) == (n + b - 1) \div b

C2_BatchCountAndSizes ==
    b_pc = "done" =>
        /\ Len(yielded) = CeilDiv(Len(iterable), batch_size)
        /\ \A i \in 1..Len(yielded) :
              /\ Len(yielded[i]) >= 1
              /\ Len(yielded[i]) <= batch_size
              /\ i < Len(yielded) => Len(yielded[i]) = batch_size
        /\ Len(iterable) = 0 => yielded = <<>>

C2_Witness ==
    /\ b_pc = "done"
    /\ batch_size = 2
    /\ Len(iterable) = 3
    /\ Len(yielded) = 2
    /\ Len(yielded[2]) = 1

(***************************************************************************)
(* C3: fetch_incidents emits exactly the vendor incidents whose ID is      *)
(* greater than the last-run incident ID, and no others: with last-run ID  *)
(* "100" and vendor IDs "99", "101", "102" it emits 101 and 102 only.      *)
(* Stated of the list the comprehension of lines 1077-1082 builds.         *)
(***************************************************************************)
IdsOf(incidents) == [i \in 1..Len(incidents) |-> incidents[i].incidentId]

C3_OnlyGreaterIds ==
    (s_pc = "cursor" /\ "incidentId" \in DOMAIN last_run) =>
        LET Newer(incident) == NumGreater(incident.incidentId, last_run.incidentId)
        IN  [i \in 1..Len(demisto_incidents) |-> demisto_incidents[i].name]
              = IdsOf(SelectSeq(securonix_incidents.d.incidentItems, Newer))

(***************************************************************************)
(* C4: whenever fetch_incidents emits at least one incident it returns     *)
(* normally, with a cursor whose time is the occurrence time of the last   *)
(* emitted incident and whose id is the ID of that incident.               *)
(***************************************************************************)
C4_CursorOfLastEmitted ==
    (s_pc \in {"return", "raised"} /\ demisto_incidents # <<>>) =>
        /\ s_pc = "return"
        /\ DOMAIN new_last_run = {"time", "id"}
        /\ new_last_run.time = Last(demisto_incidents).occurred
        /\ new_last_run.id = Last(demisto_incidents).name

(***************************************************************************)
(* C5: across successive scheduled fetches, with the host replaying the    *)
(* stored cursor, an incident emitted by one invocation and returned again *)
(* by the vendor is never emitted again by a later invocation.             *)
(***************************************************************************)
C5_NoReEmission ==
    s_pc = "cursor" => EmittedIds \cap emittedBefore = {}

(***************************************************************************)
(* What the claims about the extractor speak of, stated without the        *)
(* operators that model the code.                                          *)
(***************************************************************************)
IsBlankLine(chars) == \A i \in 1..Len(chars) : IsSpace(chars[i])

\* the first whitespace-delimited token of a line that is not blank
FirstTokenOf(chars) ==
    LET first == SetMin({i \in 1..Len(chars) : ~IsSpace(chars[i])})
        stops == {j \in first..Len(chars) : IsSpace(chars[j])}
        end == IF stops = {} THEN Len(chars) ELSE SetMin(stops) - 1
    IN  SubSeq(chars, first, end)

\* the ways to cut w into one piece for each of the atoms k.., each piece
\* of the atom's class and of the atom's length
RECURSIVE Splits(_, _, _)
Splits(atoms, k, w) ==
    IF k > Len(atoms) THEN (IF w = <<>> THEN {<<>>} ELSE {})
    ELSE UNION { { <<SubSeq(w, 1, n)>> \o r :
                      r \in Splits(atoms, k + 1, SubSeq(w, n + 1, Len(w))) } :
                 n \in { n \in 1..Len(w) :
                            /\ atoms[k].plus \/ n = 1
                            /\ \A i \in 1..n : w[i] \in atoms[k].cls } }

\* the pattern is found in the line from position i to position j
OccursAt(regex, chars, i, j) ==
    /\ regex.anchored => i = 1
    /\ Splits(regex.atoms, 1, SubSeq(chars, i, j)) # {}

\* the pattern is found in the line
Occurs(regex, chars) ==
    \E i \in 1..Len(chars) : \E j \in i..Len(chars) : OccursAt(regex, chars, i, j)

\* a template with each group reference replaced by the captured text
RECURSIVE Render(_, _, _)
Render(template, regex, pieces) ==
    IF template = <<>> THEN <<>>
    ELSE LET seg == Head(template)
             text == IF "lit" \in DOMAIN seg THEN <<seg.lit>>
                     ELSE IF seg.ref = 0 THEN Flatten(pieces)
                     ELSE pieces[CHOOSE k \in 1..Len(pieces) :
                                    regex.atoms[k].group = seg.ref]
         IN  text \o Render(Tail(template), regex, pieces)

\* w is the stanza's template expanded against a leftmost match of its
\* pattern in the line; a stanza with no template gives the matched text
IsExpansion(stanza, chars, w) ==
    LET template == IF "transform" \in DOMAIN stanza THEN stanza.transform
                    ELSE WholeMatch
    IN  \E i \in 1..Len(chars) : \E j \in i..Len(chars) :
           /\ \A i2 \in 1..(i - 1) : \A j2 \in i2..Len(chars) :
                 ~OccursAt(stanza.regex, chars, i2, j2)
           /\ stanza.regex.anchored => i = 1
           /\ \E pieces \in Splits(stanza.regex.atoms, 1, SubSeq(chars, i, j)) :
                 w = Render(template, stanza.regex, pieces)

\* the parameters the client was constructed of
ParamsOfClient ==
    {params \in FeedParams :
        NewClient(params).raised = "" /\ NewClient(params).client = client}

\* a line has gone through the loop body of fetch_indicators_command
LineDone ==
    /\ f_pc \in {"loop", "raised", "done"}
    /\ outcome \in {"blank", "nomatch", "record", "error"}

RecordEmitted == f_pc \in {"loop", "done"} /\ outcome = "record"

(***************************************************************************)
(* C6: with no Indicator Rule, every line that is non-blank after          *)
(* stripping yields exactly one record, whose value is the first           *)
(* whitespace-delimited token of the line; a blank or whitespace-only      *)
(* line yields no record and no error.                                     *)
(***************************************************************************)
C6_FirstTokenRecord ==
    (IsNone(client.indicator) /\ LineDone) =>
        /\ f_pc # "raised"
        /\ IF IsBlankLine(raw.s)
           THEN Len(indicators) = before
           ELSE /\ Len(indicators) = before + 1
                /\ Last(indicators).value.s = FirstTokenOf(raw.s)

(***************************************************************************)
(* C7: with an Indicator Rule, a line in which its pattern is not found    *)
(* contributes no record (and its Field Rules are not evaluated), and      *)
(* each line in which it is found contributes exactly one record.          *)
(***************************************************************************)
C7_RuleDecidesRecord ==
    (~IsNone(client.indicator) /\ LineDone /\ ~IsBlankLine(raw.s)) =>
        IF Occurs(client.indicator.regex, Strip(raw.s))
        THEN RecordEmitted /\ Len(indicators) = before + 1
        ELSE outcome = "nomatch" /\ Len(indicators) = before

(***************************************************************************)
(* C8: a value an Extraction Rule produces is the rule's template          *)
(* expanded against the match, each group reference replaced by the        *)
(* captured text: the line "192.0.2.1\t192.0.2.9\t37\tACME" with           *)
(* ^([0-9.]+)\t([0-9.]+) and \1-\2 gives "192.0.2.1-192.0.2.9".  A rule    *)
(* with no template gives the entire matched text, also when its pattern   *)
(* has capture groups.  Stated of the indicator of every record and of     *)
(* every extracted field that stays a string.                              *)
(***************************************************************************)
C8_ValueIsExpansion ==
    \A params \in ParamsOfClient :
        /\ (RecordEmitted /\ ~IsNone(params.indicator)) =>
              /\ IsExpansion(params.indicator, line.s, Last(indicators).value.s)
              /\ (line.s = ExampleLine /\ params.indicator = PairStanza) =>
                    Last(indicators).value =
                        Str(<< "1", "9", "2", ".", "0", ".", "2", ".", "1", "-",
                               "1", "9", "2", ".", "0", ".", "2", ".", "9" >>)
        /\ f_pc = "emit" =>
              \A i \in 1..Len(params.fields) :
                 LET f == params.fields[i]
                 IN  (f.name \in DOMAIN attributes /\ attributes[f.name].t = "str") =>
                        IsExpansion(f.stanza, line.s, attributes[f.name].s)

C8_Witness ==
    /\ RecordEmitted
    /\ raw.s = ExampleLine
    /\ ~IsNone(client.indicator)
    /\ Groups(client.indicator.regex) = 2
    /\ Last(indicators).value =
          Str(<< "1", "9", "2", ".", "0", ".", "2", ".", "1", "-",
                 "1", "9", "2", ".", "0", ".", "2", ".", "9" >>)
    /\ "num" \in DOMAIN Last(indicators).rawJSON

(***************************************************************************)
(* C9 as claimed: for every emitted record and every configured Field      *)
(* Rule, the record's field mapping holds the field's key if and only if   *)
(* the rule's pattern was found in the line.                               *)
(***************************************************************************)
C9_KeyIffFound ==
    RecordEmitted =>
        \A i \in 1..Len(client.fields) :
            client.fields[i].name \in DOMAIN Last(indicators).rawJSON
                <=> Occurs(client.fields[i].rule.regex, line.s)

(***************************************************************************)
(* C9 as amended: for every emitted record and every configured Field      *)
(* Rule not named 'value' or 'type', the record's field mapping holds the  *)
(* field's key if and only if the rule's pattern was found in the line; a  *)
(* field that does not match is left out (no null placeholder), and it     *)
(* never has the line skipped or an error raised: a line whose indicator   *)
(* was found yields its record, unless the line is a bytes object, on      *)
(* which every pattern raises TypeError, matching or not.                  *)
(***************************************************************************)
C9_KeyIffFoundUnlessReserved ==
    /\ RecordEmitted =>
          \A i \in 1..Len(client.fields) :
             LET f == client.fields[i].name
                 rawJSON == Last(indicators).rawJSON
             IN  /\ f \notin {"value", "type"} =>
                       (f \in DOMAIN rawJSON
                           <=> Occurs(client.fields[i].rule.regex, line.s))
                 /\ f \in DOMAIN rawJSON => ~IsNone(rawJSON[f])
    /\ f_pc = "emit" =>
          \A i \in 1..Len(client.fields) :
             client.fields[i].name \in DOMAIN attributes
                 <=> Occurs(client.fields[i].rule.regex, line.s)
    /\ (LineDone /\ outcome \in {"record", "error"}) =>
          \/ RecordEmitted /\ Len(indicators) = before + 1
          \/ f_raised = "TypeError" /\ line.t = "bytes"

C9_Witness ==
    /\ RecordEmitted
    /\ Len(client.fields) = 2
    /\ "num" \in DOMAIN Last(indicators).rawJSON
    /\ "first" \notin DOMAIN Last(indicators).rawJSON
    /\ ~Occurs(client.fields[1].rule.regex, line.s)

(***************************************************************************)
(* C10: an extracted field value is stored as an integer exactly when the  *)
(* whole expanded string is an integer, and as the unchanged string        *)
(* otherwise: "42" is stored as 42, "42a" stays "42a"; a failed coercion   *)
(* raises no error and does not drop the field.  Stated of attributes as   *)
(* the loop over the fields leaves it (line 209).                          *)
(***************************************************************************)
\* the string, whitespace around it and a sign before it apart, is made of
\* digits (Python allows single underscores between them)
Unsigned(chars) ==
    LET t == Strip(chars)
    IN  IF t # <<>> /\ t[1] \in {"+", "-"} THEN Tail(t) ELSE t

IsIntegerText(chars) ==
    LET u == Unsigned(chars)
    IN  /\ u # <<>>
        /\ \A i \in 1..Len(u) : u[i] \in Digits \cup {"_"}
        /\ u[1] \in Digits /\ u[Len(u)] \in Digits
        /\ \A i \in 1..(Len(u) - 1) : ~(u[i] = "_" /\ u[i + 1] = "_")

RECURSIVE Pow10(_)
Pow10(n) == IF n = 0 THEN 1 ELSE 10 * Pow10(n - 1)

RECURSIVE SumOf(_, _)
SumOf(F, S) ==
    IF S = {} THEN 0
    ELSE LET x == CHOOSE y \in S : TRUE IN F[x] + SumOf(F, S \ {x})

IntegerOf(chars) ==
    LET IsDigit(c) == c \in Digits
        ds == SelectSeq(Unsigned(chars), IsDigit)
        abs == SumOf([i \in 1..Len(ds) |-> DigitValue(ds[i]) * Pow10(Len(ds) - i)],
                     1..Len(ds))
    IN  IF Strip(chars)[1] = "-" THEN 0 - abs ELSE abs

C10_IntegerExactlyWhenWhole ==
    /\ f_pc = "emit" =>
          \A i \in 1..Len(client.fields) :
             LET f == client.fields[i]
                 m == Search(f.rule.regex, line.s)
                 w == Expand(f.rule.regex, m, line.s, f.rule.transform).s
             IN  m.found =>
                    /\ f.name \in DOMAIN attributes
                    /\ attributes[f.name] =
                          IF IsIntegerText(w) THEN [t |-> "int", n |-> IntegerOf(w)]
                          ELSE Str(w)
                    /\ (f.name = "num" /\ line.s = <<"4", "2">>) =>
                          attributes[f.name] = [t |-> "int", n |-> 42]
                    /\ (f.name = "num" /\ line.s = <<"4", "2", "a">>) =>
                          attributes[f.name] = Str(<<"4", "2", "a">>)
    /\ f_raised \in {"", "TypeError"}
    /\ f_raised = "TypeError" => raw.t = "bytes"

C10_Witness ==
    /\ f_pc = "emit"
    /\ Len(indicators) = 1
    /\ "num" \in DOMAIN indicators[1].rawJSON
    /\ indicators[1].rawJSON["num"] = [t |-> "int", n |-> 42]
    /\ line.s = <<"4", "2", "a">>
    /\ attributes["num"] = Str(<<"4", "2", "a">>)

(***************************************************************************)
(* C11: with an ignore pattern configured, a line the pattern matches at   *)
(* position 0 is dropped before the extractor sees it, and a line it does  *)
(* not match at position 0 (the pattern may occur later in the line)       *)
(* survives the filter; the lines are handled one by one in feed order.    *)
(***************************************************************************)
\* the pattern is found in the line starting at its first character
OccursAtStart(regex, chars) ==
    \E j \in 1..Len(chars) : Splits(regex.atoms, 1, SubSeq(chars, 1, j)) # {}

\* the loop has pulled at least one line
LinePulled == outcome # "start"

C11_IgnoreAnchoredAtStart ==
    (~IsNone(client.ignore_regex) /\ LinePulled) =>
        /\ outcome # "filter_error"
        /\ outcome = "ignored" <=> OccursAtStart(client.ignore_regex, raw.s)
        /\ outcome = "ignored" => Len(indicators) = before

(***************************************************************************)
(* C12: with an explicit source encoding, a line is decoded and re-encoded *)
(* as UTF-8 text and then filtered and extracted exactly as the same line  *)
(* of a feed with no encoding configured: same outcome, same record.       *)
(***************************************************************************)
\* the client with no encoding configured
Unencoded(c) == [c EXCEPT !.encoding = PyNone]

\* lines 141-156, 180-219: what the line chars comes to under client c
LineResult(c, chars) ==
    LET x == Decoded(c, chars)
        kept == IgnoreFilter(c, x)
        ln == [t |-> x.t, s |-> Strip(x.s)]
        ind == IndicatorOf(c, ln)
        flds == FieldsFrom(c.fields, 1, ln, EmptyDict)
    IN  IF kept.raised # "" THEN [outcome |-> "filter_error"]
        ELSE IF ~kept.keep THEN [outcome |-> "ignored"]
        ELSE IF ln.s = <<>> THEN [outcome |-> "blank"]
        ELSE IF ind.raised # "" THEN [outcome |-> "error"]
        ELSE IF ~ind.found THEN [outcome |-> "nomatch"]
        ELSE IF flds.raised # "" THEN [outcome |-> "error"]
        ELSE LET merged == Put(Put(flds.attributes, "value", ind.value),
                               "type", itype)
             IN  [ outcome |-> "record",
                   record |-> [value |-> ind.value, type |-> itype,
                               rawJSON |-> merged] ]

\* what became of the line pulled last, once the loop body is through
LineOutcome ==
    IF outcome = "record"
    THEN [outcome |-> "record", record |-> Last(indicators)]
    ELSE [outcome |-> outcome]

LineThrough ==
    /\ LinePulled
    /\ f_pc \in {"loop", "raised", "done"}

C12_EncodedAsUnencoded ==
    (~IsNone(client.encoding) /\ LineThrough) =>
        /\ raw.t = "str"
        /\ LineOutcome = LineResult(Unencoded(client), raw.s)

(***************************************************************************)
(* C13: a rule without a pattern, the Indicator Rule or a Field Rule, is   *)
(* rejected when the client is constructed: before any HTTP request and    *)
(* before any line is processed.  No invocation gets past construction     *)
(* with such a rule.                                                       *)
(***************************************************************************)
HasPattern(stanza) == "regex" \in DOMAIN stanza

RulesHavePatterns(p) ==
    /\ IsNone(p.indicator) \/ HasPattern(p.indicator)
    /\ \A i \in 1..Len(p.fields) : HasPattern(p.fields[i].stanza)

C13_PatternlessRuleRejectedAtSetup ==
    ~RulesHavePatterns(demisto_params) =>
        /\ m_pc \in {"construct", "escaped"}
        /\ m_pc = "escaped" => escaped = "ValueError"
        /\ client = PyNone
        /\ gets = 0
        /\ f_pc = "off"
        /\ nlines = 0

C13_Witness ==
    /\ ~IsNone(demisto_params)
    /\ Len(demisto_params.fields) = 2
    /\ HasPattern(demisto_params.fields[1].stanza)
    /\ ~HasPattern(demisto_params.fields[2].stanza)
    /\ m_pc = "escaped"
    /\ escaped = "ValueError"
    /\ gets = 0

(***************************************************************************)
(* C14: every error of an invocation of the Feed Extractor, a malformed    *)
(* rule found at setup included, ends the invocation with exactly one      *)
(* failure message handed to return_error; no error leaves main            *)
(* unreported.                                                             *)
(***************************************************************************)
C14_EveryErrorReported ==
    /\ escaped = ""
    /\ Len(errors) <= 1
    /\ (m_pc = "done" /\ m_raised # "") => errors = <<m_raised>>
    /\ (m_pc = "done" /\ m_raised = "") => errors = <<>>

(***************************************************************************)
(* C15: when the HTTP status of the feed is not successful, build_iterator *)
(* fails and yields no line: test-module does not return 'ok', the         *)
(* on-demand command returns no records, and the GET is issued exactly     *)
(* once, never again.                                                      *)
(***************************************************************************)
C15_BadStatusAbortsFetch ==
    /\ gets <= 1
    /\ status = "bad" =>
          /\ gets = 1
          /\ m_raised = "HTTPError"
          /\ outputs = <<>>
          /\ nlines = 0
          /\ f_pc = "off"
          /\ indicators = <<>>
          /\ created = <<>>
          /\ m_pc = "done" => errors = <<"HTTPError">>

C15_Witness ==
    /\ status = "bad"
    /\ command = "test-module"
    /\ m_pc = "done"
    /\ outputs = <<>>
    /\ errors = <<"HTTPError">>

(***************************************************************************)
(* C16: the records of fetch_indicators_command are in the order of the    *)
(* lines they were made of, at most one record to a line, and nothing is   *)
(* deduplicated: each line that comes to a record appends exactly that     *)
(* record to the end of the list, whatever the list holds already, and no  *)
(* other step changes the list.                                            *)
(***************************************************************************)
C16_RecordsInLineOrder ==
    /\ [](before <= Len(indicators) /\ Len(indicators) <= before + 1)
    /\ [][ IF f_pc = "emit"
           THEN /\ indicators' = Append(indicators, Last(indicators'))
                /\ Last(indicators').value = indicator
                /\ before' = before
           ELSE indicators' = indicators ]_vars

C16_Witness ==
    /\ f_pc = "done"
    /\ nlines = 2
    /\ Len(indicators) = 2
    /\ indicators[1] = indicators[2]
    /\ raw.s = <<"a", "4">>

(***************************************************************************)
(* C17: the scheduled fetch hands every record to createIndicators exactly *)
(* once and in line order, in consecutive calls of at least 1 and at most  *)
(* 2000 records, and emits no command outputs.                             *)
(***************************************************************************)
BatchesSent == [i \in 1..Len(created) |-> created[i].b]

\* the records handed to the host so far are the first records of the list
SentIsPrefix ==
    LET sent == Flatten(BatchesSent)
    IN  /\ Len(sent) <= Len(indicators)
        /\ sent = SubSeq(indicators, 1, Len(sent))

C17_SubmittedOnceInOrder ==
    /\ outputs = <<>>
    /\ \A i \in 1..Len(created) :
          Len(created[i].b) >= 1 /\ Len(created[i].b) <= SubmitBatchSize
    /\ \A i \in 1..(Len(created) - 1) : Len(created[i].b) = SubmitBatchSize
    /\ SentIsPrefix
    /\ (m_pc = "done" /\ errors = <<>>) => Flatten(BatchesSent) = indicators

C17_Witness ==
    /\ m_pc = "done"
    /\ errors = <<>>
    /\ Len(indicators) = 2 * SubmitBatchSize + 1
    /\ Len(created) = 3
    /\ Len(created[3].b) = 1

(***************************************************************************)
(* C18: when createIndicators fails on a batch, that batch is not          *)
(* submitted again, the batches before it stay submitted, no later batch   *)
(* is submitted, and the invocation ends with one error report.            *)
(***************************************************************************)
C18_FailedBatchEndsSubmission ==
    /\ \A i \in 1..(Len(created) - 1) : created[i].ok
    /\ SentIsPrefix
    /\ Len(errors) <= 1
    /\ (created # <<>> /\ ~Last(created).ok) =>
          /\ m_pc \in {"failed", "done"}
          /\ m_raised = "Exception"
          /\ m_pc = "done" => errors = <<"Exception">>

C18_Witness ==
    /\ Len(indicators) = 2 * SubmitBatchSize + 1
    /\ Len(created) = 2
    /\ created[1].ok
    /\ ~created[2].ok
    /\ m_pc = "done"
    /\ errors = <<"Exception">>

(***************************************************************************)
(* C19: constructing the SIEM client issues exactly one token-generation   *)
(* request, before any other request; every later request of the          *)
(* invocation carries that token as a header; nothing is requested of the  *)
(* vendor without a token and the token is never generated again.          *)
(***************************************************************************)
C19_OneTokenOnEveryRequest ==
    /\ a_pc # "construct" => requests # <<>>
    /\ requests # <<>> =>
          /\ requests[1].url = TokenUrl
          /\ token # "" => (Ok(requests[1].response)
                            /\ token = requests[1].response.text)
    /\ \A i \in 2..Len(requests) :
          /\ requests[i].url # TokenUrl
          /\ Ok(requests[1].response)
          /\ requests[i].headers = [token |-> requests[1].response.text]

C19_Witness ==
    /\ a_command = "securonix-perform-action-on-incident"
    /\ a_pc = "done"
    /\ Len(requests) = 3
    /\ requests[1].response.text = "token2"
    /\ requests[3].headers = [token |-> "token2"]
    /\ a_outputs = <<"return_outputs">>

(***************************************************************************)
(* C20: when an HTTP call of the SIEM client returns a status that is not  *)
(* a success, the call is not made again, the error raised carries the     *)
(* status and the response body, the invocation issues no further request  *)
(* and reports one error and no outputs.                                   *)
(***************************************************************************)
C20_FailedCallEndsInvocation ==
    \A i \in 1..Len(requests) :
        ~Ok(requests[i].response) =>
            /\ i = Len(requests)
            /\ a_pc \in {"failed", "done"}
            /\ a_raised.message = [status |-> requests[i].response.status,
                                   text |-> requests[i].response.text]
            /\ a_outputs = <<>>
            /\ a_pc = "done" => a_errors = <<a_raised.message>>
            /\ a_pc = "failed" => a_errors = <<>>

C20_Witness ==
    /\ a_command = "securonix-perform-action-on-incident"
    /\ a_pc = "done"
    /\ Len(requests) = 3
    /\ requests[3].response.status = 500
    /\ a_errors = <<[status |-> 500, text |-> "result"]>>
    /\ a_outputs = <<>>

(***************************************************************************)
(* C21: for every tenant the base URL main builds starts with http:// or   *)
(* https:// and ends with '.securonix.net/Snypr/ws/'; the suffix is        *)
(* appended exactly when the tenant does not end with it already, and a    *)
(* URL that is normalised already is returned unchanged.                   *)
(***************************************************************************)
Normalised(url) ==
    /\ StartsWith(url, HttpScheme) \/ StartsWith(url, HttpsScheme)
    /\ EndsWith(url, WsSuffix)

C21_BaseUrlNormalised ==
    u_pc = "built" =>
        /\ Normalised(server_url)
        /\ EndsWith(tenant, WsSuffix) =>
              server_url \in {tenant, HttpsScheme \o tenant}
        /\ ~EndsWith(tenant, WsSuffix) =>
              server_url \in {tenant \o WsSuffix, HttpsScheme \o tenant \o WsSuffix}
        /\ Normalised(tenant) => server_url = tenant
        /\ ServerUrl(server_url) = server_url

C21_Witness ==
    /\ u_pc = "built"
    /\ Normalised(tenant)
    /\ StartsWith(tenant, HttpScheme)
    /\ Len(tenant) > Len(HttpScheme) + Len(WsSuffix)
    /\ server_url = tenant

(***************************************************************************)
(* C22: the raw field mapping of every emitted record has the record's     *)
(* value under 'value' and the caller's type under 'type', also when a     *)
(* Field Rule is named 'value' or 'type': the extracted field is the one   *)
(* that is overwritten.                                                    *)
(***************************************************************************)
C22_RawValueAndType ==
    \A i \in 1..Len(indicators) :
        /\ {"value", "type"} \subseteq DOMAIN indicators[i].rawJSON
        /\ indicators[i].rawJSON["value"] = indicators[i].value
        /\ indicators[i].rawJSON["type"] = indicators[i].type
        /\ indicators[i].type = itype

\* a Field Rule named 'type' found 4 in the line a4
C22_Witness ==
    /\ RecordEmitted
    /\ Len(client.fields) = 1
    /\ client.fields[1].name = "type"
    /\ raw.s = <<"a", "4">>
    /\ Occurs(client.fields[1].rule.regex, line.s)
    /\ Last(indicators).rawJSON["type"] = itype

(***************************************************************************)
(* C23: a scheduled feed fetch submits no batch before the whole stream    *)
(* has been read and extracted; when the fetch or the extraction fails at  *)
(* any line, no record of the invocation is submitted.                     *)
(***************************************************************************)
C23_NothingSubmittedBeforeAllRead ==
    /\ created # <<>> =>
          /\ command = "fetch-indicators"
          /\ status = "ok"
          /\ f_pc = "done"
          /\ f_raised = ""
    /\ (status = "bad" \/ f_pc = "raised") => created = <<>>

\* a record was made of the first line and the second line raised
C23_Witness ==
    /\ command = "fetch-indicators"
    /\ m_pc = "done"
    /\ nlines = 2
    /\ Len(indicators) = 1
    /\ f_raised = "re.error"
    /\ errors = <<"re.error">>
    /\ created = <<>>

(***************************************************************************)
(* C24: in a scheduled incident fetch setLastRun is called only after the  *)
(* incidents of the run have been handed to demisto.incidents; when        *)
(* fetch_incidents fails neither is called: the stored cursor stays as it  *)
(* was and no incident is handed over.                                     *)
(***************************************************************************)
C24_CursorStoredAfterHandOver ==
    /\ [](s_pc = "setLastRun" =>
            /\ s_raised = ""
            /\ Len(hostIncidents) + Len(hostErrors) = runs
            /\ hostIncidents # <<>>
            /\ Last(hostIncidents) = demisto_incidents)
    /\ [][ /\ lastRun' # lastRun => s_pc = "setLastRun"
           /\ hostIncidents' # hostIncidents => s_pc = "return" /\ s_raised = ""
           /\ s_pc = "raised" => (lastRun' = lastRun /\ hostIncidents' = hostIncidents)
         ]_vars

\* one run handed its incidents over and stored its cursor, one run failed
C24_Witness ==
    /\ s_pc = "idle"
    /\ runs = 2
    /\ Len(hostIncidents) = 1
    /\ Len(hostErrors) = 1
    /\ lastRun = FirstRunCursor

ResultEntries ==
    SelectSeq(a_outputs,
              LAMBDA o : o \in {"results", "return_outputs", "incidents"})

C26_OneTerminalResult ==
    /\ Len(ResultEntries) + Len(a_errors) <= 1
    /\ a_pc = "done" => Len(ResultEntries) + Len(a_errors) = 1

(***************************************************************************)
(* C27: perform_action_on_incident_request first asks for the action info  *)
(* with a GET and sends the POST only if the answer holds no 'error'; with *)
(* an 'error' it raises and no POST is sent; and when the POST result is   *)
(* 'submitted' the command reports that the action was performed.          *)
(***************************************************************************)
\* the value under 'result' of the answer to the POST, "" if there is none
PostResult ==
    IF Len(requests) = 3 /\ Ok(requests[3].response)
          /\ "result" \in DOMAIN requests[3].response.text
    THEN requests[3].response.text.result
    ELSE JsonStr("")

C27_ActionGetThenPost ==
    /\ Len(requests) <= 3
    /\ Len(requests) >= 2 => requests[2].method = "GET"
    /\ Len(requests) = 3 =>
          /\ requests[3].method = "POST"
          /\ Ok(requests[2].response)
          /\ "error" \notin DOMAIN requests[2].response.text
    /\ (Len(requests) >= 2 /\ Ok(requests[2].response)
           /\ "error" \in DOMAIN requests[2].response.text) =>
          /\ Len(requests) = 2
          /\ a_raised.type = "Exception"
    /\ PostResult = JsonStr("submitted") =>
          /\ a_pc = "done"
          /\ a_errors = <<>>
          /\ a_outputs = <<[performed |-> requests[3].params]>>

====
